---- MODULE Spec2Model ----
(***************************************************************************)
(* Model of the Phish data downloader (scripts/fetch_phish_data.py and its *)
(* "genuine data only" twin scripts/fetch_phish_data_genuine.py).          *)
(*                                                                         *)
(* Two specifications share the same variables and the same operators:     *)
(*   Spec      one run of main(): the five phases in program order;        *)
(*   SpecCalls one direct call of a method of PhishDataDownloader with     *)
(*             arbitrary arguments, the way the unit tests call them, or   *)
(*             of one component of the design (length parser, note tags,   *)
(*             song metrics aggregator).                                   *)
(*                                                                         *)
(* Python values that come out of JSON are tagged records (PyValue), text  *)
(* that the code compares or parses is a sequence of character codes, so   *)
(* that `<=` on strings, int() and strptime() are computed, not assumed.   *)
(***************************************************************************)
EXTENDS Integers, Sequences, FiniteSets, TLC

VARIABLES
    mode,                \* "main": a run of main(); "call": one direct method call
    variant,             \* whose create_processed_data ran: "synthetic" (fetch_phish_data.py),
                         \* "genuine" (fetch_phish_data_genuine.py), "none" before it runs
    today,               \* datetime.now().strftime('%Y-%m-%d'), fixed for the run
    pc,                  \* position in main() / in the called method
    files,               \* DATA_DIR: file name -> [exists, data]
    yearFiles,           \* DATA_DIR: year -> [exists, data] of shows-<year>.json
    written,             \* names of the files opened for writing so far
    yearWritten,         \* years whose shows-<year>.json was opened for writing
    apiSongs,            \* outcome of the last /songs request  [called, ok, data]
    apiShows,            \* outcome of the last /shows request  [called, ok, data]
    songs,               \* main's local `songs` / the argument of a direct call
    shows,               \* main's local `shows` / the argument of a direct call
    recent_shows,        \* fetch_setlists_for_recent_shows: the selected shows
    shows_with_setlists, \* fetch_setlists_for_recent_shows: the result so far
    log,                 \* the API requests, sleeps and file writes, in order
    result,              \* what the last create_processed_data / fetch_* returned
    rc,                  \* main's return value, -1 while it runs
    arg,                 \* the argument of a direct call of a pure function
    agg_shows,           \* aggregate(showsWithSetlists): its argument
    agg_pos,             \* aggregate: index of the show being processed
    agg_fact,            \* aggregate: index of the next fact of that show
    metrics              \* aggregate: the mapping songName -> SongMetrics so far

vars == <<mode, variant, today, pc, files, yearFiles, written, yearWritten,
          apiSongs, apiShows, songs, shows, recent_shows, shows_with_setlists,
          log, result, rc, arg, agg_shows, agg_pos, agg_fact, metrics>>

\* what the downloader's own methods never touch
aggVars == <<arg, agg_shows, agg_pos, agg_fact, metrics>>

(***************************************************************************)
(* Bounds of the model.                                                    *)
(***************************************************************************)
MaxSongs == 2       \* longest catalog passed to a direct call
MaxShows == 2       \* longest show list passed to a direct call
MaxRecords == 3     \* most catalog entries plus shows passed to one direct call
MaxApiSongs == 1    \* longest /songs response in a run of main()
MaxApiShows == 2    \* longest /shows response in a run of main()

(***************************************************************************)
(* Text: a string is the sequence of its character codes.                  *)
(***************************************************************************)
Dash == 45
Zero == 48

D(n) == Zero + n

IsDigit(c) == c >= Zero /\ c <= Zero + 9

\* Python's str <= str: lexicographic on the characters, a proper prefix first
RECURSIVE StrLe(_, _)
StrLe(a, b) ==
    IF a = <<>> THEN TRUE
    ELSE IF b = <<>> THEN FALSE
    ELSE IF Head(a) < Head(b) THEN TRUE
    ELSE IF Head(a) > Head(b) THEN FALSE
    ELSE StrLe(Tail(a), Tail(b))

\* strftime('%Y-%m-%d'): four digits, two digits, two digits
Iso(y, m, d) ==
    << D(y \div 1000), D((y \div 100) % 10), D((y \div 10) % 10), D(y % 10),
       Dash, D(m \div 10), D(m % 10), Dash, D(d \div 10), D(d % 10) >>

RECURSIVE DigitsValue(_, _)
DigitsValue(s, acc) ==
    IF s = <<>> THEN acc ELSE DigitsValue(Tail(s), acc * 10 + (Head(s) - Zero))

AllDigits(s) == \A i \in 1..Len(s) : IsDigit(s[i])

\* str.lower(), on the letters A-Z
LowerChar(c) == IF c >= 65 /\ c <= 90 THEN c + 32 ELSE c

Lower(s) == [i \in 1..Len(s) |-> LowerChar(s[i])]

(***************************************************************************)
(* JSON values as Python sees them.                                        *)
(***************************************************************************)
Absent == [k |-> "absent", n |-> 0, s |-> <<>>]   \* the key is not in the dict
Null == [k |-> "null", n |-> 0, s |-> <<>>]       \* None
IntV(i) == [k |-> "int", n |-> i, s |-> <<>>]
StrV(t) == [k |-> "str", n |-> 0, s |-> t]

\* dict.get(key, default)
Get(v, default) == IF v.k = "absent" THEN default ELSE v

\* dict.get(key): None when the key is missing
GetOrNone(v) == Get(v, Null)

\* bool(v)
Truthy(v) ==
    CASE v.k = "int" -> v.n # 0
      [] v.k = "str" -> v.s # <<>>
      [] OTHER -> FALSE

\* int(v): [ok, n]; not ok is the TypeError of int(None) or the ValueError of
\* int('abc')
PyInt(v) ==
    CASE v.k = "int" -> [ok |-> TRUE, n |-> v.n]
      [] v.k = "str" ->
            IF v.s # <<>> /\ AllDigits(v.s)
            THEN [ok |-> TRUE, n |-> DigitsValue(v.s, 0)]
            ELSE [ok |-> FALSE, n |-> 0]
      [] OTHER -> [ok |-> FALSE, n |-> 0]

(***************************************************************************)
(* json.dump(value, f) and json.load(f), on the values of the model.  A    *)
(* number is written in decimal digits, a string between double quotes     *)
(* (no text of the model holds a character json escapes), None as null; a  *)
(* key the dict lacks is not written.                                      *)
(***************************************************************************)
RECURSIVE IntText(_)
IntText(i) ==
    IF i < 0 THEN <<Dash>> \o IntText(0 - i)
    ELSE IF i < 10 THEN <<D(i)>>
    ELSE IntText(i \div 10) \o <<D(i % 10)>>

\* a wrong variant of JsonDumps: every value is written as a string
JsonDumpsAsText(v) ==
    CASE v.k = "null" -> <<110, 117, 108, 108>>
      [] v.k = "int" -> <<34>> \o IntText(v.n) \o <<34>>
      [] v.k = "str" -> <<34>> \o v.s \o <<34>>
      [] OTHER -> <<>>

\* the text json.dump writes for one value; nothing for a missing key
JsonDumps(v) ==
    CASE v.k = "null" -> <<110, 117, 108, 108>>
      [] v.k = "int" -> IntText(v.n)
      [] v.k = "str" -> <<34>> \o v.s \o <<34>>
      [] OTHER -> <<>>

\* the value json.load reads from the text of one value
JsonLoads(text) ==
    IF text = <<>> THEN Absent
    ELSE IF Head(text) = 34 THEN StrV(SubSeq(text, 2, Len(text) - 1))
    ELSE IF Head(text) = 110 THEN Null
    ELSE IF Head(text) = Dash THEN IntV(0 - DigitsValue(Tail(text), 0))
    ELSE IntV(DigitsValue(text, 0))

\* the document json.load reads from the file json.dump wrote for doc: a list
\* of songs, a list of shows, or the processed data.  Names and tags stand
\* for their texts and are kept as they are.
JsonReload(kind, doc) ==
    LET RT(v) == JsonLoads(JsonDumps(v))
        Song(s) == [song |-> s.song, times_played |-> RT(s.times_played),
                    gap |-> RT(s.gap), debut |-> RT(s.debut),
                    last_played |-> RT(s.last_played)]
        Show(s) == [showid |-> RT(IntV(s.showid)).n, showdate |-> RT(s.showdate),
                    artistid |-> RT(s.artistid), artist_name |-> RT(s.artist_name)]
        Stat(e) == [name |-> e.name,
                    slug |-> RT(StrV(e.slug)).s,
                    timesPlayed |-> RT(IntV(e.timesPlayed)).n,
                    firstPlayed |-> RT(e.firstPlayed),
                    lastPlayed |-> RT(e.lastPlayed),
                    gap |-> RT(IntV(e.gap)).n,
                    averageLength |-> RT(e.averageLength),
                    tags |-> e.tags,
                    longestJam |-> [present |-> e.longestJam.present,
                                    length |-> RT(IntV(e.longestJam.length)).n]]
        PShow(s) == [showid |-> RT(IntV(s.showid)).n, date |-> RT(s.date)]
    IN  CASE kind = "songs" -> [i \in 1..Len(doc) |-> Song(doc[i])]
          [] kind = "shows" -> [i \in 1..Len(doc) |-> Show(doc[i])]
          [] OTHER ->
                [songs |-> [i \in 1..Len(doc.songs) |-> Stat(doc.songs[i])],
                 shows |-> [i \in 1..Len(doc.shows) |-> PShow(doc.shows[i])],
                 totalSongs |-> RT(IntV(doc.totalSongs)).n,
                 totalShows |-> RT(IntV(doc.totalShows)).n,
                 dataSource |-> doc.dataSource]

(***************************************************************************)
(* Dates: datetime.strptime(s, '%Y-%m-%d').                                *)
(***************************************************************************)
IsLeap(y) == (y % 4 = 0 /\ y % 100 # 0) \/ y % 400 = 0

DaysIn(y, m) ==
    IF m = 2 THEN (IF IsLeap(y) THEN 29 ELSE 28)
    ELSE IF m \in {4, 6, 9, 11} THEN 30 ELSE 31

\* the number one or two digits name; 0 when the text is not one or two digits
FieldValue(s) ==
    IF Len(s) \in 1..2 /\ AllDigits(s) THEN DigitsValue(s, 0) ELSE 0

\* [ok, year]: not ok is strptime's ValueError
Strptime(s) ==
    LET n == Len(s)
        bad == [ok |-> FALSE, year |-> 0]
    IN  IF n < 8 \/ n > 10 THEN bad
        ELSE IF ~(AllDigits(SubSeq(s, 1, 4)) /\ s[5] = Dash) THEN bad
        ELSE LET rest == SubSeq(s, 6, n)
                 p == IF rest[2] = Dash THEN 2 ELSE IF rest[3] = Dash THEN 3 ELSE 0
             IN  IF p = 0 THEN bad
                 ELSE LET y == DigitsValue(SubSeq(s, 1, 4), 0)
                          m == FieldValue(SubSeq(rest, 1, p - 1))
                          d == FieldValue(SubSeq(rest, p + 1, Len(rest)))
                      IN  IF m \in 1..12 /\ d >= 1 /\ d <= DaysIn(y, m)
                          THEN [ok |-> TRUE, year |-> y]
                          ELSE bad

\* datetime.now().year, read back from the formatted date
YearOf(t) == DigitsValue(SubSeq(t, 1, 4), 0)

(***************************************************************************)
(* Shows and the two filters.                                              *)
(***************************************************************************)
Phish == <<80, 104, 105, 115, 104>>     \* 'Phish'
Trey == <<84, 114, 101, 121>>           \* another artist's name

MkShow(id, date, aid, name) ==
    [showid |-> id, showdate |-> date, artistid |-> aid, artist_name |-> name]

\* a wrong variant of IsPhish: both conditions required
IsPhishAnd(show) ==
    GetOrNone(show.artistid) = IntV(1) /\ GetOrNone(show.artist_name) = StrV(Phish)

\* show.get('artistid') == 1 or show.get('artist_name') == 'Phish'
IsPhish(show) ==
    GetOrNone(show.artistid) = IntV(1) \/ GetOrNone(show.artist_name) = StrV(Phish)

\* show.get('showdate', '')
ShowDate(show) == Get(show.showdate, StrV(<<>>))

\* show.get('showdate', '') <= today raises TypeError unless the date is a str
DateCmpRaises(show) == ShowDate(show).k # "str"

\* show.get('showdate', '') <= today, for a str date
NotFuture(show, t) == StrLe(ShowDate(show).s, t)

AnySeq(s, P(_)) == \E i \in 1..Len(s) : P(s[i])

\* [show for show in all_shows if <is phish>]
PhishFilter(all_shows) == SelectSeq(all_shows, IsPhish)

\* [show for show in shows if show.get('showdate', '') <= today]
PastFilter(ss, t) == LET Keep(show) == NotFuture(show, t) IN SelectSeq(ss, Keep)

(***************************************************************************)
(* The inputs the model draws from.                                        *)
(***************************************************************************)
SeqsUpTo(S, n) == UNION {[1..k -> S] : k \in 0..n}

\* the day before the last of a year, when a show of the year is yet to come,
\* and the first day of the next
Todays == {Iso(2024, 12, 30), Iso(2025, 1, 1)}

ShowUniverse ==
    { MkShow(1001, StrV(Iso(2024, 12, 30)), IntV(1), StrV(Phish)),
      MkShow(1002, StrV(Iso(2024, 12, 31)), IntV(1), Absent),
      MkShow(1003, StrV(Iso(2025, 1, 1)), Absent, StrV(Phish)),
      MkShow(1004, StrV(Iso(2024, 12, 30)), IntV(2), StrV(Trey)),
      MkShow(1005, Absent, IntV(1), StrV(Phish)),
      MkShow(1006, Null, IntV(1), StrV(Phish)),
      MkShow(1007, StrV(<<D(2), D(0), D(2), D(4)>>), IntV(2), StrV(Phish)),
      MkShow(1008, StrV(<<>>), IntV(1), StrV(Phish)) }

MkSong(name, tp, gap, debut) ==
    [song |-> name, times_played |-> tp, gap |-> gap, debut |-> debut,
     last_played |-> StrV(Iso(2024, 12, 30))]

SongUniverse ==
    { MkSong("Tweezer", IntV(398), IntV(1), StrV(Iso(1990, 2, 3))),
      MkSong("Tweezer", IntV(5), IntV(0), Absent),
      MkSong("Rare Song", Null, IntV(500), StrV(Iso(1995, 6, 14))),
      MkSong("Rare Song", IntV(3), Null, StrV(Iso(1995, 6, 14))),
      MkSong("Fluffhead", StrV(<<D(1), D(2)>>), StrV(<<120>>), Absent),
      MkSong("Fluffhead", Absent, Absent, StrV(Iso(1986, 10, 15))),
      MkSong("Hey, Mr. D.J. (Live)", IntV(150), IntV(7), StrV(Iso(2012, 8, 15))) }

\* the characters of the names of the model
NameText(name) ==
    CASE name = "Tweezer" -> <<84, 119, 101, 101, 122, 101, 114>>
      [] name = "Fluffhead" -> <<70, 108, 117, 102, 102, 104, 101, 97, 100>>
      [] name = "Rare Song" -> <<82, 97, 114, 101, 32, 83, 111, 110, 103>>
      [] name = "Old Song" -> <<79, 108, 100, 32, 83, 111, 110, 103>>
      [] name = "Hey, Mr. D.J. (Live)" ->
            <<72, 101, 121, 44, 32, 77, 114, 46, 32, 68, 46, 74, 46, 32, 40, 76, 105, 118, 101, 41>>

\* what the API answers in a run of main()
ApiShowUniverse == {s \in ShowUniverse : s.showid \in {1001, 1003, 1004, 1005, 1006}}
ApiSongUniverse == {s \in SongUniverse : s.gap \in {IntV(1), IntV(500)}}

\* what an earlier run left in DATA_DIR
OldShow == MkShow(999, StrV(Iso(2023, 7, 4)), IntV(1), StrV(Phish))
OldSong == MkSong("Old Song", IntV(1), IntV(1), Absent)

FileNames ==
    {"songs.json", "shows.json", "shows-by-year.json",
     "recent-shows-with-setlists.json", "processed-data.json"}

MainStartYear == 2020        \* main: fetch_yearly_shows(2020)
MainLimit == 20              \* main: fetch_setlists_for_recent_shows(shows, limit=20)
DefaultLimit == 50           \* fetch_setlists_for_recent_shows(..., limit=50)

YearRange == MainStartYear..2026

NoFile == [exists |-> FALSE, data |-> <<>>]
File(d) == [exists |-> TRUE, data |-> d]

ApiFail == [called |-> TRUE, ok |-> FALSE, data |-> <<>>]
ApiOk(d) == [called |-> TRUE, ok |-> TRUE, data |-> d]
NotCalled == [called |-> FALSE, ok |-> FALSE, data |-> <<>>]

\* the /songs and /shows responses a request can get
SongResponses ==
    {ApiFail} \cup {ApiOk(d) : d \in IF mode = "main"
                                    THEN SeqsUpTo(ApiSongUniverse, MaxApiSongs)
                                    ELSE SeqsUpTo(SongUniverse, MaxSongs)}
ShowResponses ==
    {ApiFail} \cup {ApiOk(d) : d \in IF mode = "main"
                                    THEN SeqsUpTo(ApiShowUniverse, MaxApiShows)
                                    ELSE SeqsUpTo(ShowUniverse, MaxShows)}

Request(endpoint, id) == [op |-> "request", ep |-> endpoint, id |-> id]
Error(endpoint, id) == [op |-> "error", ep |-> endpoint, id |-> id]
Sleep(ms) == [op |-> "sleep", ep |-> "", id |-> ms]
Write(name, year) == [op |-> "write", ep |-> name, id |-> year]

Returned(op, value) == [op |-> op, raised |-> FALSE, value |-> value]
Raised(op) == [op |-> op, raised |-> TRUE, value |-> <<>>]
NoResult == [op |-> "none", raised |-> FALSE, value |-> <<>>]

(***************************************************************************)
(* Control: main() runs the phases in order; a direct call runs one.       *)
(***************************************************************************)
Phases ==
    <<"fetch_all_songs", "fetch_all_shows", "fetch_yearly_shows",
      "fetch_setlists", "create_processed_data", "done">>

PhaseAfter(op) == Phases[(CHOOSE i \in 1..Len(Phases) : Phases[i] = op) + 1]

At(op) == (mode = "main" /\ pc = op) \/ (mode = "call" /\ pc = "idle")

After(op) == IF mode = "main" THEN PhaseAfter(op) ELSE "returned"

\* main's time.sleep(1) between the phases
MainSleep == IF mode = "main" THEN <<Sleep(1000)>> ELSE <<>>

(***************************************************************************)
(* fetch_all_songs                                                         *)
(***************************************************************************)
\* a wrong variant of SongsFiles: the file is opened before the request
SongsFilesTruncating(fs, resp) ==
    [fs EXCEPT !["songs.json"] = File(resp.data)]

\* the files after the call, given the outcome of the /songs request
SongsFiles(fs, resp) ==
    IF resp.ok THEN [fs EXCEPT !["songs.json"] = File(JsonReload("songs", resp.data))]
    ELSE fs

FetchAllSongs ==
    /\ At("fetch_all_songs")
    /\ \E resp \in SongResponses :
        /\ apiSongs' = resp
        /\ files' = SongsFiles(files, resp)
        /\ written' = IF resp.ok THEN written \cup {"songs.json"} ELSE written
        /\ songs' = IF resp.ok THEN resp.data ELSE <<>>
        /\ log' = log \o <<Request("/songs", 0)>>
                      \o (IF resp.ok THEN <<Write("songs.json", 0)>>
                                     ELSE <<Error("/songs", 0)>>)
                      \o MainSleep
        /\ result' = Returned("fetch_all_songs", songs')
    /\ pc' = After("fetch_all_songs")
    /\ UNCHANGED <<aggVars, mode, variant, today, yearFiles, yearWritten, apiShows, shows,
                   recent_shows, shows_with_setlists, rc>>

(***************************************************************************)
(* fetch_all_shows                                                         *)
(***************************************************************************)
\* the files after the call, given the outcome of the /shows request
ShowsFiles(fs, resp) ==
    IF resp.ok
    THEN [fs EXCEPT !["shows.json"] = File(JsonReload("shows", PhishFilter(resp.data)))]
    ELSE fs

FetchAllShows ==
    /\ At("fetch_all_shows")
    /\ \E resp \in ShowResponses :
        /\ apiShows' = resp
        /\ files' = ShowsFiles(files, resp)
        /\ written' = IF resp.ok THEN written \cup {"shows.json"} ELSE written
        /\ shows' = IF resp.ok THEN PhishFilter(resp.data) ELSE <<>>
        /\ log' = log \o <<Request("/shows", 0)>>
                      \o (IF resp.ok THEN <<Write("shows.json", 0)>>
                                     ELSE <<Error("/shows", 0)>>)
                      \o MainSleep
        /\ result' = Returned("fetch_all_shows", shows')
    /\ pc' = After("fetch_all_shows")
    /\ UNCHANGED <<aggVars, mode, variant, today, yearFiles, yearWritten, apiSongs, songs,
                   recent_shows, shows_with_setlists, rc>>

(***************************************************************************)
(* fetch_yearly_shows(start_year, end_year); end_year 0 stands for None    *)
(***************************************************************************)
\* a wrong variant of EndYear: the end year is taken as given
EndYearAsGiven(end_year, t) == IF end_year = 0 THEN YearOf(t) ELSE end_year

\* end_year after "if end_year is None or end_year > current_year"
EndYear(end_year, t) ==
    IF end_year = 0 \/ end_year > YearOf(t) THEN YearOf(t) ELSE end_year

\* a wrong variant of InYear: the show's date is not compared with today
InYearWhenever(show, year, t) ==
    /\ Truthy(ShowDate(show))
    /\ IsPhish(show)
    /\ Strptime(ShowDate(show).s).ok
    /\ Strptime(ShowDate(show).s).year = year

\* the test of the inner loop: is the show appended to year_shows?
InYear(show, year, t) ==
    /\ Truthy(ShowDate(show))
    /\ IsPhish(show)
    /\ Strptime(ShowDate(show).s).ok
    /\ Strptime(ShowDate(show).s).year = year
    /\ StrLe(ShowDate(show).s, t)

YearShows(all_shows, year, t) ==
    LET Keep(show) == InYear(show, year, t) IN SelectSeq(all_shows, Keep)

\* yearly_data, as the (year, year_shows) pairs in insertion order
YearlyData(all_shows, start_year, end, t) ==
    [i \in 1..(end - start_year + 1) |->
        [year |-> start_year + i - 1,
         shows |-> YearShows(all_shows, start_year + i - 1, t)]]

\* all_shows when shows.json is there: its content, whoever wrote it
CachedShows(fs, resp) ==
    IF fs["shows.json"].exists THEN fs["shows.json"].data
    ELSE IF resp.ok THEN resp.data ELSE <<>>

FetchYearlyShows(start_year, end_year) ==
    /\ At("fetch_yearly_shows")
    /\ \E resp \in (IF files["shows.json"].exists THEN {NotCalled} ELSE ShowResponses) :
        LET end == EndYear(end_year, today)
            all_shows == CachedShows(files, resp)
            yearly == YearlyData(all_shows, start_year, end, today)
        IN  /\ apiShows' = IF resp.called THEN resp ELSE apiShows
            /\ yearFiles' = [y \in YearRange |->
                    IF y \in start_year..end
                    THEN File(YearShows(all_shows, y, today)) ELSE yearFiles[y]]
            /\ yearWritten' = yearWritten \cup (start_year..end)
            /\ files' = [files EXCEPT !["shows-by-year.json"] = File(yearly)]
            /\ written' = written \cup {"shows-by-year.json"}
            /\ log' = log \o (IF resp.called THEN <<Request("/shows", 0)>> ELSE <<>>)
                          \o (IF resp.called /\ ~resp.ok THEN <<Error("/shows", 0)>>
                                                          ELSE <<>>)
                          \o [i \in 1..(end - start_year + 1) |->
                                Write("shows-<year>.json", start_year + i - 1)]
                          \o <<Write("shows-by-year.json", 0)>>
                          \o MainSleep
            /\ result' = Returned("fetch_yearly_shows", yearly)
    /\ arg' = [start_year |-> start_year, end_year |-> end_year]
    /\ pc' = After("fetch_yearly_shows")
    /\ UNCHANGED <<agg_shows, agg_pos, agg_fact, metrics, mode, variant, today, apiSongs,
                   songs, shows, recent_shows, shows_with_setlists, rc>>

(***************************************************************************)
(* fetch_setlists_for_recent_shows(shows, limit)                           *)
(***************************************************************************)
\* the filter of lines 167-171, for show lists whose dates are all str
RecentFilter(ss, t) ==
    LET Keep(show) == NotFuture(show, t) /\ IsPhish(show) IN SelectSeq(ss, Keep)

\* sorted(..., key=showdate, reverse=True): stable, latest date first
RECURSIVE InsertDesc(_, _)
InsertDesc(sorted, x) ==
    IF sorted = <<>> THEN <<x>>
    ELSE IF StrLe(ShowDate(x).s, ShowDate(Head(sorted)).s)
         THEN <<Head(sorted)>> \o InsertDesc(Tail(sorted), x)
         ELSE <<x>> \o sorted

RECURSIVE SortDesc(_, _)
SortDesc(todo, sorted) ==
    IF todo = <<>> THEN sorted
    ELSE SortDesc(Tail(todo), InsertDesc(sorted, Head(todo)))

Take(s, n) == SubSeq(s, 1, IF Len(s) < n THEN Len(s) ELSE n)

\* a wrong variant of RecentShows: the filtered shows are not sorted
RecentShowsAsGiven(ss, t, limit) == Take(RecentFilter(ss, t), limit)

RecentShows(ss, t, limit) == Take(SortDesc(RecentFilter(ss, t), <<>>), limit)

WithSetlist(show) == [show |-> show, has_setlist |-> TRUE]
WithoutSetlist(show) == [show |-> show, has_setlist |-> FALSE]

\* the start of the call, up to the loop; a non-str date makes the filter raise
BeginSetlists(ss, limit) ==
    /\ arg' = [limit |-> limit]
    /\ IF AnySeq(ss, DateCmpRaises)
       THEN /\ pc' = IF mode = "main" THEN "done" ELSE "returned"
            /\ rc' = IF mode = "main" THEN 1 ELSE rc
            /\ result' = Raised("fetch_setlists")
            /\ UNCHANGED <<recent_shows, shows_with_setlists>>
       ELSE /\ pc' = "setlist_loop"
            /\ recent_shows' = RecentShows(ss, today, limit)
            /\ shows_with_setlists' = <<>>
            /\ UNCHANGED <<rc, result>>

\* a wrong variant of FailedEntry: the failing show is left out
FailedEntryDropped(show) == <<>>

\* one iteration of the loop: what is appended when the request fails
FailedEntry(show) == <<WithoutSetlist(show)>>

SetlistRequest ==
    /\ pc = "setlist_loop"
    /\ Len(shows_with_setlists) < Len(recent_shows)
    /\ LET show == recent_shows[Len(shows_with_setlists) + 1]
       IN  \E ok \in BOOLEAN :
            /\ shows_with_setlists' = shows_with_setlists \o
                    (IF ok THEN <<WithSetlist(show)>> ELSE FailedEntry(show))
            /\ log' = log \o <<Request("/setlists/get", show.showid)>>
                          \o (IF ok THEN <<Sleep(500)>>
                                    ELSE <<Error("/setlists/get", show.showid)>>)
    /\ UNCHANGED <<aggVars, mode, variant, today, pc, files, yearFiles, written, yearWritten,
                   apiSongs, apiShows, songs, shows, recent_shows, result, rc>>

SetlistSave ==
    /\ pc = "setlist_loop"
    /\ Len(shows_with_setlists) >= Len(recent_shows)
    /\ files' = [files EXCEPT
                    !["recent-shows-with-setlists.json"] = File(shows_with_setlists)]
    /\ written' = written \cup {"recent-shows-with-setlists.json"}
    /\ log' = log \o <<Write("recent-shows-with-setlists.json", 0)>>
    /\ result' = Returned("fetch_setlists", shows_with_setlists)
    /\ pc' = After("fetch_setlists")
    /\ UNCHANGED <<aggVars, mode, variant, today, yearFiles, yearWritten, apiSongs, apiShows,
                   songs, shows, recent_shows, shows_with_setlists, rc>>

(***************************************************************************)
(* The synthetic song fields of fetch_phish_data.py.  Lengths are in       *)
(* tenths of a minute; random.uniform(a, b) draws one of its two ends.     *)
(* A name is matched against the hardcoded lists by the set of the model's *)
(* names that contain a listed text once lowercased.  Every name of the    *)
(* model that contains a text of the four jam lists of generate_longest_jam*)
(* is itself a key of legendary_jams, so those four branches are not taken.*)
(***************************************************************************)
Variants == {"synthetic", "genuine"}

UnitDraws == {0, 1}
Draws == [a : UnitDraws, j : UnitDraws]

Uniform(lo, hi, u) == lo + u * (hi - lo)

Max(a, b) == IF a >= b THEN a ELSE b

\* hundredths to tenths, to the nearest
Round1(h) == (h + 5) \div 10

LongJamNames == {"Tweezer"}
MediumJamNames == {"Fluffhead"}
JamVehicleNames == {"Tweezer", "Fluffhead"}
ClassicNames == {"Fluffhead"}
\* the keys of legendary_jams among the model's names, and their lengths
LegendaryNames == {"Tweezer", "Fluffhead"}
LegendaryLength(name) == IF name = "Tweezer" THEN 435 ELSE 110

\* round(estimate_average_length(song_name), 1), in tenths
EstimateAverageLength(name, u) ==
    IF name \in LongJamNames THEN Uniform(180, 250, u)
    ELSE IF name \in MediumJamNames THEN Uniform(80, 150, u)
    ELSE Uniform(60, 120, u)

\* a wrong variant of GenerateTags: 'Frequent' from 200 plays on
GenerateTagsFrequentFrom200(name, times_played) ==
    (IF times_played < 10 THEN <<"Rare">>
     ELSE IF times_played >= 200 THEN <<"Frequent">>
     ELSE IF times_played > 100 THEN <<"Common">> ELSE <<>>)
    \o (IF name \in JamVehicleNames THEN <<"Jam Vehicle">> ELSE <<>>)
    \o (IF name \in ClassicNames THEN <<"Classic">> ELSE <<>>)
    \o (IF times_played > 300 THEN <<"1.0 Era">> ELSE <<>>)

\* a wrong variant of GenerateTags: the classics test appends 'Jam Vehicle'
GenerateTagsClassicAsJamVehicle(name, times_played) ==
    (IF times_played < 10 THEN <<"Rare">>
     ELSE IF times_played > 200 THEN <<"Frequent">>
     ELSE IF times_played > 100 THEN <<"Common">> ELSE <<>>)
    \o (IF name \in JamVehicleNames THEN <<"Jam Vehicle">> ELSE <<>>)
    \o (IF name \in ClassicNames THEN <<"Jam Vehicle">> ELSE <<>>)
    \o (IF times_played > 300 THEN <<"1.0 Era">> ELSE <<>>)

\* generate_tags(song_name, times_played)
GenerateTags(name, times_played) ==
    (IF times_played < 10 THEN <<"Rare">>
     ELSE IF times_played > 200 THEN <<"Frequent">>
     ELSE IF times_played > 100 THEN <<"Common">> ELSE <<>>)
    \o (IF name \in JamVehicleNames THEN <<"Jam Vehicle">> ELSE <<>>)
    \o (IF name \in ClassicNames THEN <<"Classic">> ELSE <<>>)
    \o (IF times_played > 300 THEN <<"1.0 Era">> ELSE <<>>)

\* generate_longest_jam(song_name, times_played, average_length)["length"], tenths
GenerateLongestJam(name, times_played, avg, u) ==
    IF name \in LegendaryNames THEN LegendaryLength(name)
    ELSE IF times_played >= 50
         THEN Round1(Max(avg * 10, Uniform(avg * 11, avg * 20, u)))
    ELSE IF times_played >= 10
         THEN Round1(Max(avg * 10, Uniform((avg * 21) \div 2, avg * 15, u)))
    ELSE Round1(Max(avg * 10, Uniform(avg * 10, avg * 12, u)))

\* the draws one song consumes: none in the genuine script, and no draw for
\* the jam length on the legendary_jams path
DrawsOf(v, song) ==
    IF v = "genuine" THEN {[a |-> 0, j |-> 0]}
    ELSE IF song.song \in LegendaryNames THEN {d \in Draws : d.j = 0}
    ELSE Draws

NoJam == [present |-> FALSE, length |-> 0]
Jam(len) == [present |-> TRUE, length |-> len]

(***************************************************************************)
(* create_processed_data(songs, shows)                                     *)
(***************************************************************************)
\* int(song.get('times_played', 0))
TimesPlayed(song) == PyInt(Get(song.times_played, IntV(0)))

\* 'gap': int(song.get('gap', 0))                              (synthetic)
\*        int(song.get('gap', 0)) if song.get('gap') else 0    (genuine)
Gap(v, song) ==
    IF v = "genuine" /\ ~Truthy(GetOrNone(song.gap))
    THEN [ok |-> TRUE, n |-> 0]
    ELSE PyInt(Get(song.gap, IntV(0)))

\* str.replace(old, new) for a one-character old; new = <<>> removes it
RECURSIVE Replace(_, _, _)
Replace(s, old, new) ==
    IF s = <<>> THEN <<>>
    ELSE (IF Head(s) = old THEN new ELSE <<Head(s)>>) \o Replace(Tail(s), old, new)

\* song_name.lower().replace(' ', '-').replace('\'', '').replace(',', '')
\*     .replace('.', '')                                      (synthetic)
\*     ... .replace('(', '').replace(')', '')                  (genuine)
Slug(v, s) ==
    LET common == Replace(Replace(Replace(Replace(Lower(s),
                        32, <<Dash>>), 39, <<>>), 44, <<>>), 46, <<>>)
    IN  IF v = "genuine" THEN Replace(Replace(common, 40, <<>>), 41, <<>>)
        ELSE common

\* does building the song_stats entry of this catalog entry raise?
SongRaises(v, song) == ~TimesPlayed(song).ok \/ ~Gap(v, song).ok

\* the song_stats entry of a catalog entry that does not raise
SongEntry(v, song, draw) ==
    LET tp == TimesPlayed(song).n
        avg == EstimateAverageLength(song.song, draw.a)
    IN  [name |-> song.song,
         slug |-> Slug(v, NameText(song.song)),
         timesPlayed |-> tp,
         firstPlayed |-> GetOrNone(song.debut),
         lastPlayed |-> GetOrNone(song.last_played),
         gap |-> Gap(v, song).n,
         averageLength |-> IF v = "genuine" THEN Null ELSE IntV(avg),
         tags |-> IF v = "genuine" THEN <<>> ELSE GenerateTags(song.song, tp),
         longestJam |-> IF v = "genuine" THEN NoJam
                        ELSE Jam(GenerateLongestJam(song.song, tp, avg, draw.j))]

\* a wrong variant of Upsert: a name already there keeps its entry
UpsertOnce(stats, entry) ==
    IF \E i \in 1..Len(stats) : stats[i].name = entry.name
    THEN stats
    ELSE Append(stats, entry)

\* song_stats[song_name] = entry: a dict keeps a key's first position
Upsert(stats, entry) ==
    IF \E i \in 1..Len(stats) : stats[i].name = entry.name
    THEN [i \in 1..Len(stats) |->
            IF stats[i].name = entry.name THEN entry ELSE stats[i]]
    ELSE Append(stats, entry)

RECURSIVE SongStats(_, _, _, _, _)
SongStats(v, sg, draws, i, stats) ==
    IF i > Len(sg) THEN stats
    ELSE SongStats(v, sg, draws, i + 1, Upsert(stats, SongEntry(v, sg[i], draws[i])))

ProcessedShow(show) == [showid |-> show.showid, date |-> GetOrNone(show.showdate)]

\* a wrong variant of ProcessedShows: the date filter alone
ProcessedShowsNoArtistFilter(sh, t) ==
    LET kept == PastFilter(sh, t)
    IN  [i \in 1..Len(kept) |-> ProcessedShow(kept[i])]

\* phish_shows: the date filter, then the artist filter
ProcessedShows(sh, t) ==
    LET kept == PhishFilter(PastFilter(sh, t))
    IN  [i \in 1..Len(kept) |-> ProcessedShow(kept[i])]

\* a wrong variant of TotalSongs: the catalog is counted, names repeated or not
TotalSongsOfCatalog(sg, stats) == Len(sg)

\* metadata.totalSongs and metadata.totalShows
TotalSongs(sg, stats) == Len(stats)

TotalShows(sh, processed_shows) == Len(processed_shows)

DataSource(v) ==
    IF v = "genuine" THEN "phish.net API v5 (genuine data only)"
    ELSE "phish.net API v5"

CreateRaises(v, sg, sh) ==
    AnySeq(sh, DateCmpRaises) \/ \E i \in 1..Len(sg) : SongRaises(v, sg[i])

\* processed_data, for arguments that do not raise
ProcessedData(v, sg, sh, t, draws) ==
    LET stats == SongStats(v, sg, draws, 1, <<>>)
        processed_shows == ProcessedShows(sh, t)
    IN  [songs |-> stats,
         shows |-> processed_shows,
         totalSongs |-> TotalSongs(sg, stats),
         totalShows |-> TotalShows(sh, processed_shows),
         dataSource |-> DataSource(v)]

CreateProcessedData(v, sg, sh) ==
    /\ At("create_processed_data")
    /\ variant' = v
    /\ songs' = sg
    /\ shows' = sh
    /\ IF CreateRaises(v, sg, sh)
       THEN /\ result' = Raised("create_processed_data")
            /\ rc' = IF mode = "main" THEN 1 ELSE rc
            /\ pc' = IF mode = "main" THEN "done" ELSE "returned"
            /\ UNCHANGED <<files, written, log>>
       ELSE \E draws \in {ds \in [1..Len(sg) -> Draws] :
                            \A i \in 1..Len(sg) : ds[i] \in DrawsOf(v, sg[i])} :
            LET data == ProcessedData(v, sg, sh, today, draws)
            IN  /\ result' = Returned("create_processed_data", <<data>>)
                /\ files' = [files EXCEPT !["processed-data.json"] =
                                File(<<JsonReload("processed", data)>>)]
                /\ written' = written \cup {"processed-data.json"}
                /\ log' = log \o <<Write("processed-data.json", 0)>>
                /\ rc' = IF mode = "main" THEN 0 ELSE rc
                /\ pc' = After("create_processed_data")
    /\ UNCHANGED <<aggVars, mode, today, yearFiles, yearWritten, apiSongs, apiShows,
                   recent_shows, shows_with_setlists>>

(***************************************************************************)
(* Text helpers: substring search, the first occurrence of a character.    *)
(***************************************************************************)
\* sub in s
RECURSIVE Contains(_, _)
Contains(s, sub) ==
    IF Len(sub) <= Len(s) /\ SubSeq(s, 1, Len(sub)) = sub THEN TRUE
    ELSE IF s = <<>> THEN FALSE
    ELSE Contains(Tail(s), sub)

\* s.find(c) + 1: the position of the first c in s, 0 when there is none
RECURSIVE FindChar(_, _, _)
FindChar(s, c, i) ==
    IF i > Len(s) THEN 0
    ELSE IF s[i] = c THEN i
    ELSE FindChar(s, c, i + 1)

(***************************************************************************)
(* Length Parser: parse(raw) -> Optional<float minutes>.  A length is an   *)
(* exact number of MinuteUnits-ths of a minute; [ok |-> FALSE] is None.    *)
(***************************************************************************)
MinuteUnits == 6000

\* a numeric raw value, in hundredths of a minute (12.5 is NumV(1250))
NumV(h) == [k |-> "num", n |-> h, s |-> <<>>]

NoLength == [ok |-> FALSE, v |-> 0]
Length(v) == [ok |-> TRUE, v |-> v]

Pow10(d) == IF d = 0 THEN 1 ELSE IF d = 1 THEN 10 ELSE IF d = 2 THEN 100 ELSE 1000

\* "parse as an integer": a non-empty run of digits
ParseInteger(s) ==
    IF s # <<>> /\ AllDigits(s)
    THEN [ok |-> TRUE, n |-> DigitsValue(s, 0)]
    ELSE [ok |-> FALSE, n |-> 0]

\* "parse as a floating-point number": digits with at most one point among
\* them and at least one digit (up to three decimals are exact here)
ParseFloat(s) ==
    LET p == FindChar(s, 46, 1)   \* "."
        whole == IF p = 0 THEN s ELSE SubSeq(s, 1, p - 1)
        frac == IF p = 0 THEN <<>> ELSE SubSeq(s, p + 1, Len(s))
    IN  IF AllDigits(whole) /\ AllDigits(frac) /\ whole \o frac # <<>>
        THEN Length(DigitsValue(whole, 0) * MinuteUnits
                    + (DigitsValue(frac, 0) * MinuteUnits) \div Pow10(Len(frac)))
        ELSE NoLength

\* a wrong variant of SplitLength: the seconds taken for hundredths
SplitLengthDecimalSeconds(s, c) ==
    LET mins == ParseInteger(SubSeq(s, 1, c - 1))
        secs == ParseInteger(SubSeq(s, c + 1, Len(s)))
    IN  IF mins.ok /\ secs.ok
        THEN Length(mins.n * MinuteUnits + secs.n * (MinuteUnits \div 100))
        ELSE NoLength

\* the colon branch: s split on its first colon, at position c
SplitLength(s, c) ==
    LET mins == ParseInteger(SubSeq(s, 1, c - 1))
        secs == ParseInteger(SubSeq(s, c + 1, Len(s)))
    IN  IF mins.ok /\ secs.ok
        THEN Length(mins.n * MinuteUnits + secs.n * (MinuteUnits \div 60))
        ELSE NoLength

ParseLength(raw) ==
    CASE raw.k \in {"absent", "null"} -> NoLength
      [] raw.k = "int" -> Length(raw.n * MinuteUnits)
      [] raw.k = "num" -> Length(raw.n * (MinuteUnits \div 100))
      [] OTHER ->
            IF raw.s = <<>> THEN NoLength
            ELSE IF FindChar(raw.s, 58, 1) # 0   \* ":"
                 THEN SplitLength(raw.s, FindChar(raw.s, 58, 1))
            ELSE ParseFloat(raw.s)

(***************************************************************************)
(* Tag derivation from fact.notes.                                         *)
(***************************************************************************)
\* "jam", "segue", "->", "tease"
Keyword ==
    [jam |-> <<106, 97, 109>>,
     segue |-> <<115, 101, 103, 117, 101>>,
     arrow |-> <<45, 62>>,
     tease |-> <<116, 101, 97, 115, 101>>]

\* the tags one note yields
NoteTags(notes) ==
    IF notes.k # "str" THEN <<>>
    ELSE LET low == Lower(notes.s)
         IN  (IF Contains(low, Keyword.jam) THEN <<"Jam Vehicle">> ELSE <<>>)
             \o (IF Contains(low, Keyword.segue) \/ Contains(low, Keyword.arrow)
                 THEN <<"Segue">> ELSE <<>>)
             \o (IF Contains(low, Keyword.tease) THEN <<"Tease">> ELSE <<>>)

(***************************************************************************)
(* Setlist Record Extractor: extract(show) -> the facts of a show.         *)
(* A setlist is absent, malformed, or a sequence of sets, each a sequence  *)
(* of song entries [song, length, notes].                                  *)
(***************************************************************************)
\* kind: "absent", "malformed" or "sets"
Setlist(kind, sets) == [k |-> kind, sets |-> sets]

SongEntryOf(name, length, notes) == [song |-> name, length |-> length, notes |-> notes]

SetlistShow(id, venue, setlist) == [showid |-> id, venue |-> venue, setlist |-> setlist]

\* the facts of one set: entries without a non-empty song name are skipped
SetFacts(show, set) ==
    LET Named(entry) == entry.song # ""
        named == SelectSeq(set, Named)
    IN  [i \in 1..Len(named) |->
            [song |-> named[i].song, showid |-> show.showid, venue |-> show.venue,
             lengthRaw |-> named[i].length, notes |-> named[i].notes]]

RECURSIVE SetsFacts(_, _, _)
SetsFacts(show, sets, i) ==
    IF i > Len(sets) THEN <<>>
    ELSE SetFacts(show, sets[i]) \o SetsFacts(show, sets, i + 1)

HasSetlist(show) == show.setlist.k = "sets"

Extract(show) == IF HasSetlist(show) THEN SetsFacts(show, show.setlist.sets, 1) ELSE <<>>

(***************************************************************************)
(* Song Metrics Aggregator: aggregate(showsWithSetlists).                  *)
(***************************************************************************)
\* the mapping with an entry for songName ensured (first-seen creates it)
Ensure(m, name) ==
    IF \E i \in 1..Len(m) : m[i].name = name THEN m
    ELSE Append(m, [name |-> name, lengths |-> <<>>, tags |-> <<>>, performances |-> <<>>])

\* a wrong variant of AddTag: the tag is appended whether it is there or not
AddTagAgain(tags, tag) == Append(tags, tag)

\* the tag accumulator holds a tag once
AddTag(tags, tag) ==
    IF \E i \in 1..Len(tags) : tags[i] = tag THEN tags ELSE Append(tags, tag)

RECURSIVE AddTags(_, _)
AddTags(tags, new) ==
    IF new = <<>> THEN tags ELSE AddTags(AddTag(tags, Head(new)), Tail(new))

\* a wrong variant of WithPerformance: no record for an unparsable length
WithPerformanceIfParsed(performances, fact, parsed) ==
    IF parsed.ok
    THEN Append(performances, [showid |-> fact.showid, venue |-> fact.venue,
                               has_length |-> parsed.ok, length |-> parsed.v])
    ELSE performances

\* the performance record is appended whether the length parsed or not
WithPerformance(performances, fact, parsed) ==
    Append(performances, [showid |-> fact.showid, venue |-> fact.venue,
                          has_length |-> parsed.ok, length |-> parsed.v])

\* one (songName, fact) folded into the entry of its song
AddFact(m, fact) ==
    LET ensured == Ensure(m, fact.song)
        parsed == ParseLength(fact.lengthRaw)
    IN  [i \in 1..Len(ensured) |->
            IF ensured[i].name = fact.song
            THEN [name |-> ensured[i].name,
                  lengths |-> IF parsed.ok THEN Append(ensured[i].lengths, parsed.v)
                              ELSE ensured[i].lengths,
                  tags |-> AddTags(ensured[i].tags, NoteTags(fact.notes)),
                  performances |-> WithPerformance(ensured[i].performances, fact, parsed)]
            ELSE ensured[i]]

RECURSIVE AddFacts(_, _, _)
AddFacts(m, facts, i) ==
    IF i > Len(facts) THEN m ELSE AddFacts(AddFact(m, facts[i]), facts, i + 1)

\* a wrong variant of AfterShow: a show without usable setlist ends the pass
AfterShowAborting(sws, pos) ==
    IF HasSetlist(sws[pos]) THEN pos + 1 ELSE Len(sws) + 1

\* the show processed after sws[pos]: a show without usable setlist data
\* is skipped for that show only
AfterShow(sws, pos) == pos + 1

RECURSIVE AggregateFrom(_, _, _)
AggregateFrom(sws, pos, m) ==
    IF pos > Len(sws) THEN m
    ELSE AggregateFrom(sws, AfterShow(sws, pos), AddFacts(m, Extract(sws[pos]), 1))

RECURSIVE SumSeq(_)
SumSeq(s) == IF s = <<>> THEN 0 ELSE Head(s) + SumSeq(Tail(s))

\* a wrong variant of Mean: divided by the number of performances
MeanOverPerformances(e) ==
    IF e.lengths = <<>> THEN [present |-> FALSE, sum |-> 0, count |-> 0]
    ELSE [present |-> TRUE, sum |-> SumSeq(e.lengths), count |-> Len(e.performances)]

\* mean(lengths) as the exact fraction sum / count
Mean(e) ==
    IF e.lengths = <<>> THEN [present |-> FALSE, sum |-> 0, count |-> 0]
    ELSE [present |-> TRUE, sum |-> SumSeq(e.lengths), count |-> Len(e.lengths)]

\* a wrong variant of Longer: a later equal length replaces the maximum
LongerOrEqual(p, best) == p.has_length /\ (~best.present \/ p.length >= best.length)

\* does performance p replace the maximum so far?  strict >
Longer(p, best) == p.has_length /\ (~best.present \/ p.length > best.length)

RECURSIVE LongestFrom(_, _, _)
LongestFrom(performances, i, best) ==
    IF i > Len(performances) THEN best
    ELSE LongestFrom(performances, i + 1,
            IF Longer(performances[i], best)
            THEN [present |-> TRUE, showid |-> performances[i].showid,
                  venue |-> performances[i].venue, length |-> performances[i].length]
            ELSE best)

\* steps 3 and 4: the aggregates of every song
Reduce(m) ==
    [i \in 1..Len(m) |->
        [name |-> m[i].name,
         averageLength |-> Mean(m[i]),
         longestJam |-> LongestFrom(m[i].performances, 1,
                            [present |-> FALSE, showid |-> 0, venue |-> "", length |-> 0]),
         tags |-> m[i].tags]]

Aggregate(sws) == Reduce(AggregateFrom(sws, 1, <<>>))

(***************************************************************************)
(* main(): the phases in program order.                                    *)
(***************************************************************************)
MainYearly ==
    /\ mode = "main"
    /\ pc = "fetch_yearly_shows"
    /\ FetchYearlyShows(MainStartYear, 0)

\* a wrong variant of MainSetlists: the setlist phase runs without "if shows:"
MainSetlistsUnguarded ==
    /\ mode = "main"
    /\ pc = "fetch_setlists"
    /\ BeginSetlists(shows, MainLimit)
    /\ UNCHANGED <<agg_shows, agg_pos, agg_fact, metrics, mode, variant, today, files,
                   yearFiles, written, yearWritten, apiSongs, apiShows, songs, shows, log>>

\* "if shows:" guards the setlist phase
MainSetlists ==
    /\ mode = "main"
    /\ pc = "fetch_setlists"
    /\ IF shows # <<>>
       THEN BeginSetlists(shows, MainLimit)
       ELSE /\ pc' = After("fetch_setlists")
            /\ UNCHANGED <<arg, recent_shows, shows_with_setlists, result, rc>>
    /\ UNCHANGED <<agg_shows, agg_pos, agg_fact, metrics, mode, variant, today, files,
                   yearFiles, written, yearWritten, apiSongs, apiShows, songs, shows, log>>

MainProcessed ==
    /\ mode = "main"
    /\ pc = "create_processed_data"
    /\ \E v \in Variants : CreateProcessedData(v, songs, shows)

(***************************************************************************)
(* Direct calls, with the arguments a test may pass.                       *)
(***************************************************************************)
\* the catalogs of up to MaxSongs entries, and those of one entry more whose
\* last entry repeats the name of the first, another song in between
Catalogs ==
    SeqsUpTo(SongUniverse, MaxSongs)
    \cup {c \in [1..(MaxSongs + 1) -> SongUniverse] :
            /\ c[MaxSongs + 1].song = c[1].song
            /\ c[1].song # "Hey, Mr. D.J. (Live)"
            /\ \A i \in 2..MaxSongs : c[i].song = "Hey, Mr. D.J. (Live)"}
ShowLists == SeqsUpTo(ShowUniverse, MaxShows)

CallYearly ==
    /\ mode = "call"
    /\ pc = "idle"
    /\ \E start_year \in {2023, 2025}, end_year \in {0, 2024, 2026} :
            FetchYearlyShows(start_year, end_year)

CallSetlists ==
    /\ mode = "call"
    /\ pc = "idle"
    /\ \E sh \in ShowLists, limit \in {1, DefaultLimit} :
        /\ shows' = sh
        /\ BeginSetlists(sh, limit)
    /\ UNCHANGED <<agg_shows, agg_pos, agg_fact, metrics, mode, variant, today, files,
                   yearFiles, written, yearWritten, apiSongs, apiShows, songs, log>>

CallProcessed ==
    /\ mode = "call"
    /\ pc = "idle"
    /\ \E v \in Variants, sg \in Catalogs :
        \E sh \in {l \in ShowLists : Len(sg) + Len(l) <= MaxRecords} :
            CreateProcessedData(v, sg, sh)

\* generate_tags(song_name, times_played), as test_generate_tags calls it
CallGenerateTags ==
    /\ mode = "call"
    /\ pc = "idle"
    /\ \E name \in {"Tweezer", "Fluffhead", "Rare Song"}, tp \in {0, 9, 10, 11, 100, 101, 200, 201, 300, 301} :
        /\ arg' = [song |-> name, times_played |-> tp]
        /\ result' = Returned("generate_tags", GenerateTags(name, tp))
    /\ pc' = "returned"
    /\ UNCHANGED <<mode, variant, today, files, yearFiles, written, yearWritten,
                   apiSongs, apiShows, songs, shows, recent_shows,
                   shows_with_setlists, log, rc, agg_shows, agg_pos, agg_fact, metrics>>

(***************************************************************************)
(* Direct calls of the components of the design.                           *)
(***************************************************************************)
\* "23:45", "0:30", "18:30", "10:00", "20:00", "12.5", "garbage", "1:5:1"
ExampleText ==
    [t2345 |-> <<50, 51, 58, 52, 53>>,
     t030 |-> <<48, 58, 51, 48>>,
     t1830 |-> <<49, 56, 58, 51, 48>>,
     t1000 |-> <<49, 48, 58, 48, 48>>,
     t2000 |-> <<50, 48, 58, 48, 48>>,
     t125 |-> <<49, 50, 46, 53>>,
     garbage |-> <<103, 97, 114, 98, 97, 103, 101>>,
     twoColons |-> <<49, 58, 53, 58, 49>>]

MaxRawLen == 3

RawLengths ==
    {Absent, Null, IntV(12), NumV(1250)}
    \cup {StrV(s) : s \in SeqsUpTo({49, 53, 58, 46, 120}, MaxRawLen)   \* 1 5 : . x
                            \cup {ExampleText[f] : f \in DOMAIN ExampleText}}

CallParseLength ==
    /\ mode = "call"
    /\ pc = "idle"
    /\ \E raw \in RawLengths :
        /\ arg' = raw
        /\ result' = Returned("parse_length", <<ParseLength(raw)>>)
    /\ pc' = "returned"
    /\ UNCHANGED <<mode, variant, today, files, yearFiles, written, yearWritten,
                   apiSongs, apiShows, songs, shows, recent_shows,
                   shows_with_setlists, log, rc, agg_shows, agg_pos, agg_fact, metrics>>

\* "big jam", "JAM", "-> Fluffhead", "Segue", "Tease",
\* "teased, then a jam ->", "jelly", "-", "seg ue > ja m"
NoteText ==
    [bigJam |-> <<98, 105, 103, 32, 106, 97, 109>>,
     upperJam |-> <<74, 65, 77>>,
     arrow |-> <<45, 62, 32, 70, 108, 117, 102, 102, 104, 101, 97, 100>>,
     segue |-> <<83, 101, 103, 117, 101>>,
     tease |-> <<84, 101, 97, 115, 101>>,
     all |-> <<116, 101, 97, 115, 101, 100, 44, 32, 116, 104, 101, 110, 32, 97, 32, 106, 97, 109, 32, 45, 62>>,
     jelly |-> <<106, 101, 108, 108, 121>>,
     dash |-> <<45>>,
     split |-> <<115, 101, 103, 32, 117, 101, 32, 62, 32, 106, 97, 32, 109>>]

Notes ==
    {Absent, Null, StrV(<<>>)} \cup {StrV(NoteText[f]) : f \in DOMAIN NoteText}

CallNoteTags ==
    /\ mode = "call"
    /\ pc = "idle"
    /\ \E notes \in Notes :
        /\ arg' = notes
        /\ result' = Returned("note_tags", NoteTags(notes))
    /\ pc' = "returned"
    /\ UNCHANGED <<mode, variant, today, files, yearFiles, written, yearWritten,
                   apiSongs, apiShows, songs, shows, recent_shows,
                   shows_with_setlists, log, rc, agg_shows, agg_pos, agg_fact, metrics>>

\* the shows an aggregation may be given
AggShowUniverse ==
    { SetlistShow(1, "A", Setlist("sets", << <<SongEntryOf("Tweezer", StrV(ExampleText.t1000), StrV(NoteText.bigJam))>> >>)),
      SetlistShow(2, "B", Setlist("sets", << <<SongEntryOf("Tweezer", StrV(ExampleText.t1000), StrV(NoteText.upperJam))>> >>)),
      SetlistShow(3, "C", Setlist("sets", << <<SongEntryOf("Tweezer", StrV(ExampleText.t2000), StrV(NoteText.arrow))>> >>)),
      SetlistShow(4, "D", Setlist("sets", << <<SongEntryOf("Tweezer", StrV(ExampleText.garbage), StrV(NoteText.tease))>>,
                                     <<SongEntryOf("Fluffhead", NumV(1250), Absent)>> >>)),
      SetlistShow(5, "E", Setlist("absent", <<>>)),
      SetlistShow(6, "F", Setlist("malformed", <<>>)),
      SetlistShow(7, "G", Setlist("sets", << <<SongEntryOf("Tweezer", StrV(ExampleText.t1000), Null),
                                       SongEntryOf("Tweezer", StrV(ExampleText.t2000), StrV(NoteText.all))>> >>)),
      SetlistShow(8, "H", Setlist("sets", << <<SongEntryOf("", StrV(ExampleText.t030), StrV(NoteText.bigJam))>>, <<>> >>)) }

MaxAggShows == 2

CallAggregate ==
    /\ mode = "call"
    /\ pc = "idle"
    /\ \E sws \in SeqsUpTo(AggShowUniverse, MaxAggShows) :
        /\ agg_shows' = sws
        /\ arg' = Null
    /\ agg_pos' = 1
    /\ agg_fact' = 1
    /\ metrics' = <<>>
    /\ pc' = "aggregate"
    /\ UNCHANGED <<mode, variant, today, files, yearFiles, written, yearWritten,
                   apiSongs, apiShows, songs, shows, recent_shows,
                   shows_with_setlists, log, result, rc>>

\* step 2, one (songName, fact) of the current show
AggregateFact ==
    /\ pc = "aggregate"
    /\ agg_pos <= Len(agg_shows)
    /\ agg_fact <= Len(Extract(agg_shows[agg_pos]))
    /\ metrics' = AddFact(metrics, Extract(agg_shows[agg_pos])[agg_fact])
    /\ agg_fact' = agg_fact + 1
    /\ UNCHANGED <<mode, variant, today, pc, files, yearFiles, written, yearWritten,
                   apiSongs, apiShows, songs, shows, recent_shows,
                   shows_with_setlists, log, result, rc, arg, agg_shows, agg_pos>>

\* step 2, the current show has no (more) facts
AggregateNextShow ==
    /\ pc = "aggregate"
    /\ agg_pos <= Len(agg_shows)
    /\ agg_fact > Len(Extract(agg_shows[agg_pos]))
    /\ agg_pos' = AfterShow(agg_shows, agg_pos)
    /\ agg_fact' = 1
    /\ UNCHANGED <<mode, variant, today, pc, files, yearFiles, written, yearWritten,
                   apiSongs, apiShows, songs, shows, recent_shows,
                   shows_with_setlists, log, result, rc, arg, agg_shows, metrics>>

\* steps 3 and 4, after the last show
AggregateReduce ==
    /\ pc = "aggregate"
    /\ agg_pos > Len(agg_shows)
    /\ result' = Returned("aggregate", Reduce(metrics))
    /\ pc' = "returned"
    /\ UNCHANGED <<mode, variant, today, files, yearFiles, written, yearWritten,
                   apiSongs, apiShows, songs, shows, recent_shows,
                   shows_with_setlists, log, rc, arg, agg_shows, agg_pos, agg_fact,
                   metrics>>

(***************************************************************************)
(* make_api_request(endpoint): the outcome for one HTTP response.          *)
(***************************************************************************)
\* "API Error: ", "Unknown error", "Request failed: ", "JSON decode error: ",
\* "None", and an error_message of the API: "Invalid key"
ApiText ==
    [apiError |-> <<65, 80, 73, 32, 69, 114, 114, 111, 114, 58, 32>>,
     unknown |-> <<85, 110, 107, 110, 111, 119, 110, 32, 101, 114, 114, 111, 114>>,
     requestFailed |-> <<82, 101, 113, 117, 101, 115, 116, 32, 102, 97, 105, 108, 101, 100, 58, 32>>,
     jsonDecode |-> <<74, 83, 79, 78, 32, 100, 101, 99, 111, 100, 101, 32, 101, 114, 114, 111, 114, 58, 32>>,
     none |-> <<78, 111, 110, 101>>,
     invalidKey |-> <<73, 110, 118, 97, 108, 105, 100, 32, 107, 101, 121>>]

\* the responses session.get may meet: the transport fails (connection error,
\* timeout, or an HTTP status raise_for_status rejects), the body is not JSON,
\* or the body is a JSON object.  True and False are the ints 1 and 0.
ApiResponses ==
    [transport : {"ok", "failed"}, json : BOOLEAN,
     body : [error : {Absent, Null, IntV(0), IntV(1), StrV(<<>>), StrV(<<49>>)},
             error_message : {Absent, Null, StrV(ApiText.invalidKey)},
             data : {Absent, Null} \cup {[k |-> "list", n |-> 0, s |-> l] :
                                            l \in {<<>>, <<"Tweezer">>}}]]

RaisedWith(op, message) == [op |-> op, raised |-> TRUE, value |-> message]

\* a wrong variant of MakeApiRequest: the error field is not looked at
MakeApiRequestIgnoringError(resp, decoder) ==
    IF resp.transport # "ok"
    THEN RaisedWith("make_api_request", ApiText.requestFailed)
    ELSE IF ~resp.json
    THEN RaisedWith("make_api_request", decoder)
    ELSE Returned("make_api_request", Get(resp.body.data, resp.body))

\* decoder is the prefix the build gives a body that is not JSON: the
\* JSONDecodeError of requests is a RequestException too, that of json is not
MakeApiRequest(resp, decoder) ==
    IF resp.transport # "ok"
    THEN RaisedWith("make_api_request", ApiText.requestFailed)
    ELSE IF ~resp.json
    THEN RaisedWith("make_api_request", decoder)
    ELSE IF Truthy(resp.body.error) /\ resp.body.error # IntV(0)
    THEN LET m == Get(resp.body.error_message, StrV(ApiText.unknown))
         IN  RaisedWith("make_api_request",
                        ApiText.apiError \o (IF m.k = "null" THEN ApiText.none ELSE m.s))
    ELSE Returned("make_api_request", Get(resp.body.data, resp.body))

CallMakeApiRequest ==
    /\ mode = "call"
    /\ pc = "idle"
    /\ \E resp \in ApiResponses, decoder \in {ApiText.requestFailed, ApiText.jsonDecode} :
        /\ arg' = resp
        /\ result' = MakeApiRequest(resp, decoder)
    /\ pc' = "returned"
    /\ UNCHANGED <<mode, variant, today, files, yearFiles, written, yearWritten,
                   apiSongs, apiShows, songs, shows, recent_shows,
                   shows_with_setlists, log, rc, agg_shows, agg_pos, agg_fact, metrics>>

(***************************************************************************)
(* Initial states and the two specifications.                              *)
(***************************************************************************)
\* DATA_DIR before the run: empty, or as an earlier run left it
OldFiles ==
    [f \in FileNames |->
        CASE f = "songs.json" -> File(<<OldSong>>)
          [] f = "shows.json" -> File(<<OldShow>>)
          [] f = "shows-by-year.json" ->
                File(YearlyData(<<OldShow>>, MainStartYear, 2024, Iso(2024, 1, 1)))
          [] f = "recent-shows-with-setlists.json" -> File(<<WithSetlist(OldShow)>>)
          [] OTHER ->
                File(<<ProcessedData("genuine", <<OldSong>>, <<OldShow>>,
                                     Iso(2024, 1, 1), <<[a |-> 0, j |-> 0]>>)>>)]

OldYearFiles ==
    [y \in YearRange |->
        IF y <= 2024 THEN File(YearShows(<<OldShow>>, y, Iso(2024, 1, 1))) ELSE NoFile]

InitCommon ==
    /\ variant = "none"
    /\ today \in Todays
    /\ \E prior \in BOOLEAN :
        /\ files = IF prior THEN OldFiles ELSE [f \in FileNames |-> NoFile]
        /\ yearFiles = IF prior THEN OldYearFiles ELSE [y \in YearRange |-> NoFile]
    /\ written = {}
    /\ yearWritten = {}
    /\ apiSongs = NotCalled
    /\ apiShows = NotCalled
    /\ songs = <<>>
    /\ shows = <<>>
    /\ recent_shows = <<>>
    /\ shows_with_setlists = <<>>
    /\ log = <<>>
    /\ result = NoResult
    /\ rc = -1
    /\ arg = Null
    /\ agg_shows = <<>>
    /\ agg_pos = 0
    /\ agg_fact = 0
    /\ metrics = <<>>

Init == mode = "main" /\ pc = "fetch_all_songs" /\ InitCommon

InitCalls == mode = "call" /\ pc = "idle" /\ InitCommon

Next ==
    \/ FetchAllSongs
    \/ FetchAllShows
    \/ MainYearly
    \/ MainSetlists
    \/ SetlistRequest
    \/ SetlistSave
    \/ MainProcessed

NextCalls ==
    \/ FetchAllSongs
    \/ FetchAllShows
    \/ CallYearly
    \/ CallSetlists
    \/ SetlistRequest
    \/ SetlistSave
    \/ CallProcessed
    \/ CallGenerateTags
    \/ CallParseLength
    \/ CallNoteTags
    \/ CallMakeApiRequest
    \/ CallAggregate
    \/ AggregateFact
    \/ AggregateNextShow
    \/ AggregateReduce

Spec == Init /\ [][Next]_vars

SpecCalls == InitCalls /\ [][NextCalls]_vars

(***************************************************************************)
(* What the claims speak of, stated on the records themselves.             *)
(***************************************************************************)
\* the tracked-artist predicate of the specification
Tracked(show) == show.artistid = IntV(1) \/ show.artist_name = StrV(Phish)

\* the date text of a show, '' when it has none
DateText(show) == IF show.showdate.k = "str" THEN show.showdate.s ELSE <<>>

OnOrBefore(show, t) == StrLe(DateText(show), t)

LacksDate(show) == DateText(show) = <<>>

\* the k-th smallest member of a set of indices
KthOf(S, k) == CHOOSE i \in S : Cardinality({j \in S : j < i}) = k - 1

CpdReturned == result.op = "create_processed_data" /\ ~result.raised
CpdOut == result.value[1]

SetlistRequestPositions ==
    {p \in 1..Len(log) : log[p].op = "request" /\ log[p].ep = "/setlists/get"}

ListingFetchFailed ==
    \E p \in 1..Len(log) : log[p].op = "error" /\ log[p].ep \in {"/songs", "/shows"}

LaterPhaseFiles ==
    {"shows-by-year.json", "recent-shows-with-setlists.json", "processed-data.json"}

(***************************************************************************)
(* C1..C10                                                                 *)
(***************************************************************************)
\* C1: the shows create_processed_data emits are exactly the input shows that
\* are of the tracked artist and dated today or earlier, in input order.
C1_ShowsAreExactlyTheFiltered ==
    CpdReturned =>
        LET kept == {i \in 1..Len(shows) :
                        Tracked(shows[i]) /\ OnOrBefore(shows[i], today)}
        IN  /\ Len(CpdOut.shows) = Cardinality(kept)
            /\ \A k \in 1..Len(CpdOut.shows) :
                    CpdOut.shows[k].showid = shows[KthOf(kept, k)].showid

\* C1 witness: of two input shows the future one is dropped, the other kept
C1_Witness ==
    /\ CpdReturned
    /\ Len(shows) = 2
    /\ Len(CpdOut.shows) = 1
    /\ \E i \in 1..2 : Tracked(shows[i]) /\ ~OnOrBefore(shows[i], today)

\* C2: a show without a date (missing or empty showdate) is never among the
\* processed shows of create_processed_data nor among the shows
\* fetch_setlists_for_recent_shows selects.
C2_DatelessShowsExcluded ==
    /\ CpdReturned =>
            \A k \in 1..Len(CpdOut.shows) :
                CpdOut.shows[k].date.k = "str" /\ CpdOut.shows[k].date.s # <<>>
    /\ pc = "setlist_loop" =>
            \A i \in 1..Len(recent_shows) : ~LacksDate(recent_shows[i])

\* C3: once the /songs or the /shows request has failed, main does not return
\* 0 and no later phase writes its file.
C3_ListingFailureIsFatal ==
    ListingFetchFailed => rc # 0 /\ written \cap LaterPhaseFiles = {}

\* C4: in fetch_setlists_for_recent_shows every selected show is requested
\* once, in order, whatever the earlier requests did; a show whose request
\* failed is in the result without a setlist; a failed request aborts nothing.
C4_SetlistFailureIsLocal ==
    (pc = "setlist_loop" \/ result.op = "fetch_setlists") =>
        LET P == SetlistRequestPositions
            n == Len(shows_with_setlists)
        IN  IF result.op = "fetch_setlists" /\ result.raised
            THEN P = {}
            ELSE /\ Cardinality(P) = n
                 /\ n <= Len(recent_shows)
                 /\ \A k \in 1..n :
                        LET p == KthOf(P, k)
                            failed == p < Len(log) /\ log[p + 1].op = "error"
                        IN  /\ log[p].id = recent_shows[k].showid
                            /\ shows_with_setlists[k].show = recent_shows[k]
                            /\ shows_with_setlists[k].has_setlist = ~failed
                 /\ result.op = "fetch_setlists" =>
                        n = Len(recent_shows) /\ result.value = shows_with_setlists

\* C4 witness: the first request failed, the second was made and succeeded
C4_Witness ==
    /\ result.op = "fetch_setlists"
    /\ ~result.raised
    /\ Len(shows_with_setlists) = 2
    /\ ~shows_with_setlists[1].has_setlist
    /\ shows_with_setlists[2].has_setlist

\* C5: a step in which the /songs (the /shows) request fails leaves songs.json
\* (shows.json) exactly as it was.
C5_FailedFetchPersistsNothing ==
    [][ /\ Len(log') > Len(log)
        /\ log'[Len(log) + 1].op = "request"
        /\ \/ log'[Len(log) + 1].ep = "/songs" /\ ~apiSongs'.ok
           \/ log'[Len(log) + 1].ep = "/shows" /\ ~apiShows'.ok
        => IF log'[Len(log) + 1].ep = "/songs"
           THEN files'["songs.json"] = files["songs.json"]
           ELSE files'["shows.json"] = files["shows.json"] ]_vars

\* C5 witness: the /songs request failed and the earlier run's songs.json is
\* still there, untouched
C5_Witness ==
    /\ apiSongs.called
    /\ ~apiSongs.ok
    /\ files["songs.json"] = File(<<OldSong>>)
    /\ "songs.json" \notin written

\* C6: no file written by this run holds a record of an earlier run.
C6_NothingFromAnEarlierRun ==
    /\ \A y \in yearWritten :
            \A i \in 1..Len(yearFiles[y].data) : yearFiles[y].data[i] # OldShow
    /\ "shows-by-year.json" \in written =>
            \A e \in 1..Len(files["shows-by-year.json"].data) :
                \A i \in 1..Len(files["shows-by-year.json"].data[e].shows) :
                    files["shows-by-year.json"].data[e].shows[i] # OldShow
    /\ "songs.json" \in written =>
            \A i \in 1..Len(files["songs.json"].data) :
                files["songs.json"].data[i] # OldSong
    /\ "shows.json" \in written =>
            \A i \in 1..Len(files["shows.json"].data) :
                files["shows.json"].data[i] # OldShow
    /\ "recent-shows-with-setlists.json" \in written =>
            \A i \in 1..Len(files["recent-shows-with-setlists.json"].data) :
                files["recent-shows-with-setlists.json"].data[i].show # OldShow
    /\ "processed-data.json" \in written =>
            LET d == files["processed-data.json"].data[1]
            IN  /\ \A i \in 1..Len(d.songs) : d.songs[i].name # OldSong.song
                /\ \A i \in 1..Len(d.shows) : d.shows[i].showid # OldShow.showid

\* C7: fetch_all_shows returns, and persists to shows.json, exactly the fetched
\* shows with artistid 1 or artist_name 'Phish', in the order fetched.
C7_FetchAllShowsKeepsTracked ==
    (result.op = "fetch_all_shows" /\ apiShows.ok) =>
        LET all == apiShows.data
            kept == {i \in 1..Len(all) : Tracked(all[i])}
        IN  /\ Len(result.value) = Cardinality(kept)
            /\ \A k \in 1..Len(result.value) : result.value[k] = all[KthOf(kept, k)]
            /\ files["shows.json"] = File(result.value)

\* C7 witness: one show was kept on its artistid alone, one on its name alone
C7_Witness ==
    /\ result.op = "fetch_all_shows"
    /\ apiShows.ok
    /\ \E i, j \in 1..Len(result.value) :
        /\ result.value[i].artistid = IntV(1)
        /\ result.value[i].artist_name # StrV(Phish)
        /\ result.value[j].artistid # IntV(1)
        /\ result.value[j].artist_name = StrV(Phish)

\* C8: create_processed_data and fetch_yearly_shows never raise, whatever the
\* shape of the catalog and show fields.
C8_ParseFailuresNeverPropagate ==
    result.op \in {"create_processed_data", "fetch_yearly_shows"} => ~result.raised

\* C9: metadata.totalSongs is the number of entries of `songs` and
\* metadata.totalShows the number of entries of `shows`.
C9_TotalsMatch ==
    CpdReturned =>
        /\ CpdOut.totalSongs = Len(CpdOut.songs)
        /\ CpdOut.totalShows = Len(CpdOut.shows)

\* C9 witness: a catalog naming one song twice, and a show that was dropped
C9_Witness ==
    /\ CpdReturned
    /\ Len(songs) = 2
    /\ CpdOut.totalSongs = 1
    /\ Len(shows) = 1
    /\ CpdOut.totalShows = 0

\* C10: create_processed_data never raises, and every processed song (none has
\* setlist-derived metrics) has averageLength None, tags [] and longestJam None.
C10_NoMetricsMeansNone ==
    result.op = "create_processed_data" =>
        /\ ~result.raised
        /\ \A i \in 1..Len(CpdOut.songs) :
            /\ CpdOut.songs[i].averageLength = Null
            /\ CpdOut.songs[i].tags = <<>>
            /\ ~CpdOut.songs[i].longestJam.present

(***************************************************************************)
(* C11..C20                                                                *)
(***************************************************************************)
\* C11: every processed song that has a longestJam has longestJam.length >=
\* averageLength, the names of the legendary-jam table included.
C11_LongestJamAtLeastAverage ==
    CpdReturned =>
        \A i \in 1..Len(CpdOut.songs) :
            (CpdOut.songs[i].longestJam.present /\ CpdOut.songs[i].averageLength.k = "int")
                => CpdOut.songs[i].longestJam.length >= CpdOut.songs[i].averageLength.n

\* the (show, fact) positions the aggregation has folded so far
FoldedFacts ==
    LET all == UNION {{<<p, f>> : f \in 1..Len(Extract(agg_shows[p]))} :
                        p \in 1..Len(agg_shows)}
    IN  {pf \in all : pf[1] < agg_pos \/ (pf[1] = agg_pos /\ pf[2] < agg_fact)}

FactAt(pf) == Extract(agg_shows[pf[1]])[pf[2]]

FoldedFactsOf(name) == {pf \in FoldedFacts : FactAt(pf).song = name}

AggregateReturned == result.op = "aggregate" /\ ~result.raised

\* C12: whatever facts the aggregator has processed, every song's metrics
\* have a performance record for each of its facts and a length for exactly
\* the records whose raw length parsed, so len(lengths) <= len(performances).
C12_LengthsWithinPerformances ==
    \A i \in 1..Len(metrics) :
        LET e == metrics[i]
        IN  /\ Len(e.lengths) <= Len(e.performances)
            /\ Len(e.performances) = Cardinality(FoldedFactsOf(e.name))
            /\ Len(e.lengths) =
                  Cardinality({k \in 1..Len(e.performances) : e.performances[k].has_length})

\* C12 witness: a song with two performances, one of them without a length
C12_Witness ==
    \E i \in 1..Len(metrics) :
        Len(metrics[i].performances) = 2 /\ Len(metrics[i].lengths) = 1

\* C13: longestJam is the performance of maximal parsed length, the first
\* one in processing order among those tied for the maximum; none when no
\* length parsed.
C13_FirstLongestWins ==
    AggregateReturned =>
        \A i \in 1..Len(result.value) :
            LET perfs == metrics[i].performances
                timed == {k \in 1..Len(perfs) : perfs[k].has_length}
                jam == result.value[i].longestJam
            IN  IF timed = {} THEN ~jam.present
                ELSE LET top == {k \in timed :
                                    \A j \in timed : perfs[j].length <= perfs[k].length}
                         first == CHOOSE k \in top : \A j \in top : k <= j
                     IN  /\ jam.present
                         /\ jam.length = perfs[first].length
                         /\ jam.showid = perfs[first].showid
                         /\ jam.venue = perfs[first].venue

\* C13 witness: two shows tied for the maximum, the first one is referenced
C13_Witness ==
    /\ AggregateReturned
    /\ \E i \in 1..Len(result.value) :
        LET perfs == metrics[i].performances
        IN  /\ Len(perfs) = 2
            /\ perfs[1].has_length /\ perfs[2].has_length
            /\ perfs[1].length = perfs[2].length
            /\ perfs[1].showid # perfs[2].showid
            /\ result.value[i].longestJam.showid = perfs[1].showid

RECURSIVE SumOfLengths(_)
SumOfLengths(S) ==
    IF S = {} THEN 0
    ELSE LET pf == CHOOSE x \in S : TRUE
         IN  ParseLength(FactAt(pf).lengthRaw).v + SumOfLengths(S \ {pf})

Permuted(sws, perm) == [i \in 1..Len(sws) |-> sws[perm[i]]]

\* C14: averageLength is the arithmetic mean of the song's parsed lengths,
\* and aggregating the same shows in any other order gives every song the
\* same averageLength.
C14_MeanWhateverTheOrder ==
    AggregateReturned =>
        /\ \A i \in 1..Len(result.value) :
            LET parsed == {pf \in FoldedFactsOf(result.value[i].name) :
                                ParseLength(FactAt(pf).lengthRaw).ok}
                avg == result.value[i].averageLength
            IN  /\ avg.present <=> parsed # {}
                /\ avg.present => /\ avg.count = Cardinality(parsed)
                                  /\ avg.sum = SumOfLengths(parsed)
        /\ \A perm \in Permutations(1..Len(agg_shows)) :
            LET other == Aggregate(Permuted(agg_shows, perm))
            IN  /\ Len(other) = Len(result.value)
                /\ \A i \in 1..Len(result.value) :
                    \E j \in 1..Len(other) :
                        /\ other[j].name = result.value[i].name
                        /\ other[j].averageLength.present
                                = result.value[i].averageLength.present
                        /\ other[j].averageLength.sum * result.value[i].averageLength.count
                                = result.value[i].averageLength.sum * other[j].averageLength.count

\* C14 witness: "10:00" then "20:00" in two shows, the average is 15.0 minutes
C14_Witness ==
    /\ AggregateReturned
    /\ Len(agg_shows) = 2
    /\ agg_shows[1] # agg_shows[2]
    /\ \E i \in 1..Len(result.value) :
        /\ metrics[i].lengths = <<10 * MinuteUnits, 20 * MinuteUnits>>
        /\ result.value[i].averageLength.count = 2
        /\ result.value[i].averageLength.sum = 2 * 15 * MinuteUnits

UsableSetlist(show) == show.setlist.k \notin {"absent", "malformed"}

\* C15: a show with malformed or absent setlist data contributes nothing and
\* aborts nothing: the result is the one of the same shows without it.
C15_BadShowIsSkipped ==
    /\ result.op = "aggregate" => ~result.raised
    /\ AggregateReturned => result.value = Aggregate(SelectSeq(agg_shows, UsableSetlist))

\* C15 witness: a show without setlist data came first, the facts of the show
\* after it are in the result
C15_Witness ==
    /\ AggregateReturned
    /\ Len(agg_shows) = 2
    /\ ~UsableSetlist(agg_shows[1])
    /\ UsableSetlist(agg_shows[2])
    /\ result.value # <<>>

IsNumeral(s) == s # <<>> /\ \A i \in 1..Len(s) : s[i] \in 48..57

RECURSIVE NumeralValue(_)
NumeralValue(s) ==
    IF s = <<>> THEN 0
    ELSE 10 * NumeralValue(SubSeq(s, 1, Len(s) - 1)) + (s[Len(s)] - 48)

\* what the claim says parse(raw) is
ExpectedLength(raw) ==
    IF raw.k \in {"absent", "null"} \/ (raw.k = "str" /\ raw.s = <<>>) THEN NoLength
    ELSE IF raw.k = "int" THEN Length(raw.n * MinuteUnits)
    ELSE IF raw.k = "num" THEN Length((raw.n * MinuteUnits) \div 100)
    ELSE IF \E i \in 1..Len(raw.s) : raw.s[i] = 58
    THEN LET c == CHOOSE i \in 1..Len(raw.s) :
                    raw.s[i] = 58 /\ \A j \in 1..(i - 1) : raw.s[j] # 58
             mins == SubSeq(raw.s, 1, c - 1)
             secs == SubSeq(raw.s, c + 1, Len(raw.s))
         IN  IF IsNumeral(mins) /\ IsNumeral(secs)
             THEN Length(NumeralValue(mins) * MinuteUnits
                         + (NumeralValue(secs) * MinuteUnits) \div 60)
             ELSE NoLength
    ELSE IF IsNumeral(raw.s) THEN Length(NumeralValue(raw.s) * MinuteUnits)
    ELSE IF \E i \in 1..Len(raw.s) :
                /\ raw.s[i] = 46
                /\ IsNumeral(SubSeq(raw.s, 1, i - 1) \o SubSeq(raw.s, i + 1, Len(raw.s)))
    THEN LET d == CHOOSE i \in 1..Len(raw.s) : raw.s[i] = 46
             digits == SubSeq(raw.s, 1, d - 1) \o SubSeq(raw.s, d + 1, Len(raw.s))
         IN  Length((NumeralValue(digits) * MinuteUnits) \div Pow10(Len(raw.s) - d))
    ELSE NoLength

\* C16: parse(raw) is None for an absent, null or empty value, minutes +
\* seconds/60 for text split on its first colon into two integers ("23:45" is
\* 23.75, "0:30" is 0.5), None when a part is not an integer, the number
\* itself for a number, None for any other text.
C16_LengthParser ==
    result.op = "parse_length" =>
        /\ ~result.raised
        /\ result.value[1] = ExpectedLength(arg)
        /\ arg = StrV(ExampleText.t2345) => result.value[1] = Length(2375 * (MinuteUnits \div 100))
        /\ arg = StrV(ExampleText.t030) => result.value[1] = Length(50 * (MinuteUnits \div 100))
        /\ arg = NumV(1250) => result.value[1] = Length(1250 * (MinuteUnits \div 100))
        /\ arg \in {Null, Absent, StrV(ExampleText.garbage), StrV(ExampleText.twoColons)}
                => result.value[1] = NoLength

\* C16 witness: "23:45" parsed to 23.75 minutes
C16_Witness ==
    /\ result.op = "parse_length"
    /\ arg = StrV(ExampleText.t2345)
    /\ result.value[1].ok
    /\ result.value[1].v * 4 = 95 * MinuteUnits

\* does the text, lowercased, contain sub?
MentionsText(s, sub) ==
    \E i \in 1..Len(s) :
        /\ i + Len(sub) - 1 <= Len(s)
        /\ \A j \in 1..Len(sub) : LowerChar(s[i + j - 1]) = sub[j]

\* the tags the claim gives a note
ExpectedNoteTags(notes) ==
    IF notes.k # "str" THEN {}
    ELSE (IF MentionsText(notes.s, Keyword.jam) THEN {"Jam Vehicle"} ELSE {})
         \cup (IF MentionsText(notes.s, Keyword.segue) \/ MentionsText(notes.s, Keyword.arrow)
               THEN {"Segue"} ELSE {})
         \cup (IF MentionsText(notes.s, Keyword.tease) THEN {"Tease"} ELSE {})

NoTagTwice(tags) == \A i, j \in 1..Len(tags) : tags[i] = tags[j] => i = j

TagSet(tags) == {tags[i] : i \in 1..Len(tags)}

\* C17: a note yields 'Jam Vehicle' iff it contains "jam", 'Segue' iff it
\* contains "segue" or "->", 'Tease' iff it contains "tease", whatever the
\* case; a song's tags are those of its notes, each of them once.
C17_NoteTags ==
    /\ result.op = "note_tags" =>
            NoTagTwice(result.value) /\ TagSet(result.value) = ExpectedNoteTags(arg)
    /\ \A i \in 1..Len(metrics) :
            /\ NoTagTwice(metrics[i].tags)
            /\ TagSet(metrics[i].tags) =
                  UNION {ExpectedNoteTags(FactAt(pf).notes) :
                            pf \in FoldedFactsOf(metrics[i].name)}
    /\ AggregateReturned =>
            \A i \in 1..Len(result.value) : result.value[i].tags = metrics[i].tags

\* C17 witness: two notes of one song both say "jam", one of them yields all
\* three tags, and the song has three tags
C17_Witness ==
    /\ AggregateReturned
    /\ \E i \in 1..Len(result.value) :
        /\ Len(result.value[i].tags) = 3
        /\ \E pf, qf \in FoldedFactsOf(result.value[i].name) :
            /\ pf # qf
            /\ "Jam Vehicle" \in ExpectedNoteTags(FactAt(pf).notes)
            /\ ExpectedNoteTags(FactAt(qf).notes) = {"Jam Vehicle", "Segue", "Tease"}

FrequencyTags == {"Rare", "Frequent", "Common"}

\* the frequency tag the claim gives a play count
ExpectedFrequencyTags(times_played) ==
    IF times_played < 10 THEN {"Rare"}
    ELSE IF times_played > 200 THEN {"Frequent"}
    ELSE IF 100 < times_played /\ times_played <= 200 THEN {"Common"}
    ELSE {}

\* C18: generate_tags gives 'Rare' iff timesPlayed < 10, 'Frequent' iff
\* timesPlayed > 200, 'Common' iff 100 < timesPlayed <= 200, no frequency tag
\* otherwise, whatever the name, and never two of them; so do the tags of the
\* songs fetch_phish_data.py's create_processed_data emits.
C18_FrequencyTag ==
    /\ result.op = "generate_tags" =>
        /\ TagSet(result.value) \cap FrequencyTags = ExpectedFrequencyTags(arg.times_played)
        /\ Cardinality({i \in 1..Len(result.value) : result.value[i] \in FrequencyTags}) <= 1
    /\ (CpdReturned /\ variant = "synthetic") =>
        \A i \in 1..Len(CpdOut.songs) :
            /\ TagSet(CpdOut.songs[i].tags) \cap FrequencyTags
                    = ExpectedFrequencyTags(CpdOut.songs[i].timesPlayed)
            /\ Cardinality({k \in 1..Len(CpdOut.songs[i].tags) :
                                CpdOut.songs[i].tags[k] \in FrequencyTags}) <= 1

\* C18 witness: generate_tags called with 200 plays answered 'Common'
C18_Witness ==
    /\ result.op = "generate_tags"
    /\ arg.times_played = 200
    /\ \E i \in 1..Len(result.value) : result.value[i] = "Common"

EraTags == {"1.0 Era", "2.0 Era", "Hiatus", "3.0 Era"}

\* the era tag the claim gives a debut year
ExpectedEraTag(year) ==
    IF year <= 2000 THEN "1.0 Era"
    ELSE IF year <= 2004 THEN "2.0 Era"
    ELSE IF year <= 2009 THEN "Hiatus"
    ELSE "3.0 Era"

\* the year a date text starts with
DebutYear(date) ==
    (date[1] - 48) * 1000 + (date[2] - 48) * 100 + (date[3] - 48) * 10 + (date[4] - 48)

\* C19: a processed song with a debut date has exactly one era tag, the one
\* of its debut year ('1.0 Era' up to 2000, '2.0 Era' 2001-2004, 'Hiatus'
\* 2005-2009, '3.0 Era' after 2009), whatever its play count.
C19_EraTagFromDebutYear ==
    CpdReturned =>
        \A i \in 1..Len(CpdOut.songs) :
            CpdOut.songs[i].firstPlayed.k = "str" =>
                TagSet(CpdOut.songs[i].tags) \cap EraTags
                    = {ExpectedEraTag(DebutYear(CpdOut.songs[i].firstPlayed.s))}

SlugForbidden == {32, 39, 44, 46, 40, 41} \cup (65..90)

\* C20: the slug of a processed song is all lower case, has no apostrophe,
\* comma, period, parenthesis or space, and is the slug either script gives
\* that name.
C20_SlugIsClean ==
    CpdReturned =>
        \A i \in 1..Len(CpdOut.songs) :
            /\ \A k \in 1..Len(CpdOut.songs[i].slug) :
                    CpdOut.songs[i].slug[k] \notin SlugForbidden
            /\ \A v \in Variants :
                    CpdOut.songs[i].slug = Slug(v, NameText(CpdOut.songs[i].name))

(***************************************************************************)
(* C21..C30                                                                *)
(***************************************************************************)
\* C21: between every two consecutive setlist requests of
\* fetch_setlists_for_recent_shows there is a delay, whether the earlier of
\* the two succeeded or failed.
C21_DelayBetweenSetlistRequests ==
    \A p, q \in SetlistRequestPositions :
        p < q => \E s \in (p + 1)..(q - 1) : log[s].op = "sleep"

\* the years a fetch_yearly_shows call with the recorded arguments may process
YearsAsked ==
    LET current_year == YearOf(today)
        end == IF arg.end_year = 0 \/ arg.end_year > current_year
               THEN current_year ELSE arg.end_year
    IN  arg.start_year..end

YearlyReturned ==
    result.op = "fetch_yearly_shows" /\ ~result.raised /\ "start_year" \in DOMAIN arg

\* C22: the keys of the result of fetch_yearly_shows(start, end) are exactly
\* the years from start to min(end, current year), end defaulting to the
\* current year, and no shows-<year>.json is written for a later year.
C22_NoFutureYear ==
    YearlyReturned =>
        /\ {result.value[i].year : i \in 1..Len(result.value)} = YearsAsked
        /\ Len(result.value) = Cardinality(YearsAsked)
        /\ yearWritten = YearsAsked
        /\ \A y \in yearWritten : y <= YearOf(today)
        /\ \A p \in 1..Len(log) :
                log[p].op = "write" /\ log[p].ep = "shows-<year>.json"
                    => log[p].id \in YearsAsked

\* C22 witness: a call asked for years past the current one and stopped at it
C22_Witness ==
    /\ YearlyReturned
    /\ arg.end_year > YearOf(today)
    /\ YearsAsked # {}
    /\ YearOf(today) \in yearWritten

MakeApiRequestDone == result.op = "make_api_request"

\* the error field of the response is truthy
ErrorReported ==
    \/ arg.body.error.k = "int" /\ arg.body.error.n # 0
    \/ arg.body.error.k = "str" /\ arg.body.error.s # <<>>

C24_NoTagTwice ==
    /\ result.op = "generate_tags" =>
            /\ NoTagTwice(result.value)
            /\ \A notes \in Notes :
                    LET merged == AddTags(result.value, NoteTags(notes))
                    IN  /\ NoTagTwice(merged)
                        /\ TagSet(merged) = TagSet(result.value) \cup TagSet(NoteTags(notes))
    /\ CpdReturned =>
            \A i \in 1..Len(CpdOut.songs) : NoTagTwice(CpdOut.songs[i].tags)

\* C24 witness: a jam vehicle and classic played more than 300 times has four
\* tags, one of them a tag the notes can yield too
C24_Witness ==
    /\ result.op = "generate_tags"
    /\ Len(result.value) = 4
    /\ "Jam Vehicle" \in TagSet(result.value)
    /\ \E notes \in Notes : "Jam Vehicle" \in TagSet(NoteTags(notes))

\* C25: after a successful fetch_all_songs, fetch_all_shows or
\* create_processed_data, the document read back from the file the step wrote
\* is the value the step returned.
C25_ReloadIsTheReturnedValue ==
    /\ (result.op = "fetch_all_songs" /\ apiSongs.ok) =>
            files["songs.json"].exists /\ files["songs.json"].data = result.value
    /\ (result.op = "fetch_all_shows" /\ apiShows.ok) =>
            files["shows.json"].exists /\ files["shows.json"].data = result.value
    /\ CpdReturned =>
            /\ files["processed-data.json"].exists
            /\ files["processed-data.json"].data = result.value

\* C25 witness: a catalog with a number, a numeric text, a null and a missing
\* field was fetched and written
C25_Witness ==
    /\ result.op = "fetch_all_songs"
    /\ apiSongs.ok
    /\ "songs.json" \in written
    /\ \E i, j \in 1..Len(result.value) :
            /\ result.value[i].times_played.k = "str"
            /\ result.value[i].debut.k = "absent"
            /\ result.value[j].times_played.k = "null"
            /\ result.value[j].gap.k = "int"

\* s is the date of a day of year y written year-month-day, the month and the
\* day in one or two digits
IsDateOfYear(s, y) ==
    /\ Len(s) \in 8..10
    /\ SubSeq(s, 1, 5) = IntText(y) \o <<Dash>>
    /\ \E q \in {7, 8} :
            /\ q < Len(s)
            /\ s[q] = Dash
            /\ Len(s) - q \in 1..2
            /\ \A i \in (6..Len(s)) \ {q} : s[i] \in 48..57
            /\ LET m == NumeralValue(SubSeq(s, 6, q - 1))
                   d == NumeralValue(SubSeq(s, q + 1, Len(s)))
               IN  m \in 1..12 /\ d \in 1..DaysIn(y, m)

\* the shows fetch_yearly_shows was given: the cache, else the /shows response
YearlyInput ==
    IF files["shows.json"].exists THEN files["shows.json"].data
    ELSE IF apiShows.ok THEN apiShows.data ELSE <<>>

BelongsToYear(show, y) ==
    Tracked(show) /\ IsDateOfYear(DateText(show), y) /\ OnOrBefore(show, today)

SetlistsReturned ==
    result.op = "fetch_setlists" /\ ~result.raised /\ "limit" \in DOMAIN arg

\* the positions of the given shows that are of the tracked artist and dated
\* today or earlier
Eligible == {p \in 1..Len(shows) : Tracked(shows[p]) /\ OnOrBefore(shows[p], today)}

Occurrences(seq, x) == Cardinality({i \in 1..Len(seq) : seq[i] = x})

\* C27: fetch_setlists_for_recent_shows requests the setlist of min(limit,
\* number of eligible shows) shows, once each: eligible shows only, latest
\* date first, none left out that is later than one taken; the result holds
\* these shows in the order of the requests, whatever the requests did.
C27_RequestsAreTheMostRecent ==
    /\ (pc = "setlist_loop" /\ "limit" \in DOMAIN arg) =>
            Cardinality(SetlistRequestPositions) <= arg.limit
    /\ SetlistsReturned =>
        LET P == SetlistRequestPositions
            n == IF arg.limit < Cardinality(Eligible)
                 THEN arg.limit ELSE Cardinality(Eligible)
            taken == [k \in 1..Len(result.value) |-> result.value[k].show]
        IN  /\ Len(result.value) = n
            /\ Cardinality(P) = n
            /\ \A k \in 1..n : log[KthOf(P, k)].id = taken[k].showid
            /\ \A k \in 1..n :
                    /\ \E p \in Eligible : shows[p] = taken[k]
                    /\ Occurrences(taken, taken[k])
                            <= Cardinality({p \in Eligible : shows[p] = taken[k]})
            /\ \A k \in 1..(n - 1) : StrLe(DateText(taken[k + 1]), DateText(taken[k]))
            /\ \A p \in Eligible :
                    Occurrences(taken, shows[p])
                            < Cardinality({q \in Eligible : shows[q] = shows[p]})
                        => StrLe(DateText(shows[p]), DateText(taken[n]))

\* C27 witness: with limit 1 and two eligible shows, the later-dated one, given
\* second, is the one requested, and its request failed
C27_Witness ==
    /\ SetlistsReturned
    /\ arg.limit = 1
    /\ Len(shows) = 2
    /\ Cardinality(Eligible) = 2
    /\ ~StrLe(DateText(shows[2]), DateText(shows[1]))
    /\ Len(result.value) = 1
    /\ result.value[1].show = shows[2]
    /\ ~result.value[1].has_setlist

\* main's pause between two phases
IsPhasePause(p) == log[p].op = "sleep" /\ log[p].id = 1000

Pauses == {p \in 1..Len(log) : IsPhasePause(p)}

\* the phase a log entry falls in: 1 the songs fetch, 2 the shows fetch, 3 the
\* yearly bucketing, 4 what follows it (main pauses after phases 1 to 3)
PhaseOfEntry(p) == 1 + Cardinality({q \in Pauses : q < p})

EntriesOfPhase ==
    [ph \in 1..4 |->
        CASE ph = 1 -> {"/songs", "songs.json"}
          [] ph = 2 -> {"/shows", "shows.json"}
          [] ph = 3 -> {"/shows", "shows-<year>.json", "shows-by-year.json"}
          [] OTHER -> {"/setlists/get", "", "recent-shows-with-setlists.json",
                       "processed-data.json"}]

ProcessedWrites ==
    {p \in 1..Len(log) : log[p].op = "write" /\ log[p].ep = "processed-data.json"}

SetlistPhaseRan ==
    \E p \in 1..Len(log) :
        log[p].op = "write" /\ log[p].ep = "recent-shows-with-setlists.json"

\* C28: main runs the songs fetch, the shows fetch, the yearly bucketing, the
\* setlist fetch and the creation of the processed data in this order, one
\* after the other; the setlist fetch is left out exactly when the fetched
\* show list is empty; processed-data.json is written at most once and nothing
\* is written after it; main returns 0 when no phase raised and 1 when one did.
C28_PhasesInOrder ==
    /\ Cardinality(Pauses) <= 3
    /\ \A p \in 1..Len(log) :
            ~IsPhasePause(p) => log[p].ep \in EntriesOfPhase[PhaseOfEntry(p)]
    /\ \A ph \in 1..3 :
            Cardinality(Pauses) >= ph =>
                \E p \in 1..Len(log) :
                    /\ PhaseOfEntry(p) = ph
                    /\ log[p].ep \in {"/songs", "/shows", "shows-by-year.json"}
    /\ pc \in {"fetch_all_songs", "fetch_all_shows", "fetch_yearly_shows", "fetch_setlists"}
            => Cardinality(Pauses) = (CHOOSE i \in 1..Len(Phases) : Phases[i] = pc) - 1
    /\ pc \in {"setlist_loop", "create_processed_data"} => Cardinality(Pauses) = 3
    /\ Cardinality(ProcessedWrites) <= 1
    /\ \A p \in ProcessedWrites :
            /\ p = Len(log)
            /\ Cardinality(Pauses) = 3
            /\ pc = "done"
    /\ pc = "setlist_loop" => shows # <<>>
    /\ pc = "create_processed_data" => (SetlistPhaseRan <=> shows # <<>>)
    /\ pc = "done" =>
            /\ rc \in {0, 1}
            /\ rc = 0 <=> ~result.raised
            /\ rc = 0 <=> ProcessedWrites # {}
            /\ (result.raised /\ result.op = "fetch_setlists") => shows # <<>>
    /\ pc # "done" => rc = -1

\* C28 witness: a run went through all five phases, the setlist phase with a
\* request, and returned 0
C28_Witness ==
    /\ pc = "done"
    /\ rc = 0
    /\ SetlistRequestPositions # {}
    /\ ProcessedWrites # {}

\* the catalog positions at which a name occurs for the first time
FirstOccurrences == {i \in 1..Len(songs) : \A j \in 1..(i - 1) : songs[j].song # songs[i].song}

\* the last catalog entry that has the name of entry i
LastNamedLike(i) ==
    songs[CHOOSE j \in i..Len(songs) :
            /\ songs[j].song = songs[i].song
            /\ \A l \in (j + 1)..Len(songs) : songs[l].song # songs[i].song]

\* C29: the processed songs hold one entry per distinct name of the catalog,
\* at the position of the name's first occurrence and with the fields of the
\* last catalog entry of that name.
C29_OneEntryPerName ==
    CpdReturned =>
        /\ Len(CpdOut.songs) = Cardinality({songs[i].song : i \in 1..Len(songs)})
        /\ \A k, l \in 1..Len(CpdOut.songs) :
                CpdOut.songs[k].name = CpdOut.songs[l].name => k = l
        /\ \A k \in 1..Len(CpdOut.songs) :
                LET first == KthOf(FirstOccurrences, k)
                    last == LastNamedLike(first)
                IN  /\ CpdOut.songs[k].name = songs[first].song
                    /\ CpdOut.songs[k].firstPlayed = GetOrNone(last.debut)
                    /\ last.times_played.k = "int" =>
                            CpdOut.songs[k].timesPlayed = last.times_played.n

\* C29 witness: a name occurs first and third in the catalog with different
\* fields; its entry comes first in the output and has the fields of the third
C29_Witness ==
    /\ CpdReturned
    /\ Len(songs) = 3
    /\ songs[1].song = songs[3].song
    /\ songs[1].debut # songs[3].debut
    /\ Len(CpdOut.songs) = 2
    /\ CpdOut.songs[1].name = songs[1].song
    /\ CpdOut.songs[1].firstPlayed = GetOrNone(songs[3].debut)

\* what the script of variant v returns for the arguments of the call
OutputOf(v) ==
    ProcessedData(v, songs, shows, today, [i \in 1..Len(songs) |-> [a |-> 0, j |-> 0]])

\* C30: for the catalog and the show list of a create_processed_data call, the
\* two scripts both raise or both return, and when they return they give the
\* same processed shows and, song by song, the same name, timesPlayed,
\* firstPlayed, lastPlayed and gap.
C30_VariantsAgree ==
    result.op = "create_processed_data" =>
        \A v \in Variants :
            /\ CreateRaises(v, songs, shows) <=> result.raised
            /\ ~result.raised =>
                    /\ OutputOf(v).shows = CpdOut.shows
                    /\ Len(OutputOf(v).songs) = Len(CpdOut.songs)
                    /\ \A i \in 1..Len(CpdOut.songs) :
                            /\ OutputOf(v).songs[i].name = CpdOut.songs[i].name
                            /\ OutputOf(v).songs[i].timesPlayed = CpdOut.songs[i].timesPlayed
                            /\ OutputOf(v).songs[i].firstPlayed = CpdOut.songs[i].firstPlayed
                            /\ OutputOf(v).songs[i].lastPlayed = CpdOut.songs[i].lastPlayed
                            /\ OutputOf(v).songs[i].gap = CpdOut.songs[i].gap

====
